---- MODULE Spec2Model ----
(***************************************************************************)
(* A model of the paper-explainer pipeline: reference validation, fetch    *)
(* and parse, the rewrite orchestrator with its glossary, the staged SSE   *)
(* processing stream with its cache, and the term highlighter.             *)
(*                                                                         *)
(* Text is modelled as a sequence of one-character strings, so that regex  *)
(* matching, case folding, markup stripping and substitution are computed  *)
(* character by character, as the code computes them.                      *)
(***************************************************************************)
EXTENDS Integers, Sequences, FiniteSets, TLC

VARIABLES
    cache,      \* the papers table: paper id -> row, or NoRow
    pc,         \* per request: position in load / GET
    req,        \* per request: entry point, url, refresh flag
    local,      \* per request: paperData, processedParagraphs, paper of load / GET
    rw,         \* per request: the local state of rewriteAllBlocks
    events,     \* per request: what was enqueued on the SSE controller
    closed,     \* per request: controller.close() was called
    outcome,    \* per request: what load / GET answered outside the stream
    calls,      \* per request: counts of external calls made so far
    orch,       \* rewriteAllBlocks called on its own (no stream around it)
    hl,         \* highlightTerms called on its own
    parser,     \* fetchAndParsePaper / parseJatsXmlToBlocks called on their own
    proxy,      \* the image proxy (GET /api/image) called on its own
    bar         \* the onProgress callback of GET called on its own

vars == <<cache, pc, req, local, rw, events, closed, outcome, calls, orch, hl, parser, proxy, bar>>

streamVars == <<cache, pc, req, local, rw, events, closed, outcome, calls>>

(***************************************************************************)
(* Characters and strings                                                  *)
(***************************************************************************)
Digits == {"0", "1", "2", "3", "4", "5", "6", "7", "8", "9"}

LowerLetters == {"a", "b", "c", "d", "e", "f", "g", "h", "i", "j", "k", "l", "m",
                 "n", "o", "p", "q", "r", "s", "t", "u", "v", "w", "x", "y", "z"}

UpperLetters == {"A", "B", "C", "D", "E", "F", "G", "H", "I", "J", "K", "L", "M",
                 "N", "O", "P", "Q", "R", "S", "T", "U", "V", "W", "X", "Y", "Z"}

WhiteSpace == {" ", "\n", "\r", "\t"}

UpperSeq == <<"A", "B", "C", "D", "E", "F", "G", "H", "I", "J", "K", "L", "M",
              "N", "O", "P", "Q", "R", "S", "T", "U", "V", "W", "X", "Y", "Z">>

LowerSeq == <<"a", "b", "c", "d", "e", "f", "g", "h", "i", "j", "k", "l", "m",
              "n", "o", "p", "q", "r", "s", "t", "u", "v", "w", "x", "y", "z">>

\* String.prototype.toLowerCase, on one character
toLowerChar(c) ==
    IF c \in UpperLetters
    THEN LowerSeq[CHOOSE k \in 1..Len(UpperSeq) : UpperSeq[k] = c]
    ELSE c

toLowerCase(s) == [k \in 1..Len(s) |-> toLowerChar(s[k])]

\* s has the literal lit at position i
LitAt(s, i, lit) ==
    /\ i >= 1
    /\ i + Len(lit) - 1 <= Len(s)
    /\ \A k \in 1..Len(lit) : s[i + k - 1] = lit[k]

\* length of the longest run of characters of set cs starting at position i
RECURSIVE RunLen(_, _, _)
RunLen(s, i, cs) ==
    IF i <= Len(s) /\ s[i] \in cs THEN 1 + RunLen(s, i + 1, cs) ELSE 0

\* the least element of a non-empty set of integers
Least(S) == CHOOSE m \in S : \A n \in S : m <= n

\* the value JavaScript calls null / undefined, where a string is expected
Null == <<"\\null">>

\* String(n) for a non-negative integer
DigitChar(n) == <<"0", "1", "2", "3", "4", "5", "6", "7", "8", "9">>[n + 1]

RECURSIVE Decimal(_)
Decimal(n) == IF n < 10 THEN <<DigitChar(n)>> ELSE Decimal(n \div 10) \o <<DigitChar(n % 10)>>

(***************************************************************************)
(* Reference validator                                                     *)
(***************************************************************************)
BioRxivPrefix ==
    <<"b", "i", "o", "r", "x", "i", "v", ".", "o", "r", "g", "/",
      "c", "o", "n", "t", "e", "n", "t", "/", "1", "0", ".">>

DoiPrefix == <<"1", "0", ".">>

MinDoiDigits == 4

\* /biorxiv\.org\/content\/10\.\d{4,}/.test(url)
isBioRxivUrl(u) ==
    \E i \in 1..Len(u) :
        /\ LitAt(u, i, BioRxivPrefix)
        /\ RunLen(u, i + Len(BioRxivPrefix), Digits) >= MinDoiDigits

\* the characters [^\s/?#]
DoiTailStop == WhiteSpace \cup {"/", "?", "#"}

RECURSIVE DoiTailLen(_, _)
DoiTailLen(u, j) ==
    IF j <= Len(u) /\ u[j] \notin DoiTailStop THEN 1 + DoiTailLen(u, j + 1) ELSE 0

\* the start positions at which /10\.\d{4,}\/[^\s/?#]+/ matches
DoiMatchStarts(u) ==
    {i \in 1..Len(u) :
        /\ LitAt(u, i, DoiPrefix)
        /\ LET n == RunLen(u, i + Len(DoiPrefix), Digits)
               slash == i + Len(DoiPrefix) + n
           IN  /\ n >= MinDoiDigits
               /\ slash <= Len(u)
               /\ u[slash] = "/"
               /\ DoiTailLen(u, slash + 1) >= 1}

\* url.match(/10\.\d{4,}\/[^\s/?#]+/): the leftmost, greedy match, or null
extractDoiFromUrl(u) ==
    IF DoiMatchStarts(u) = {} THEN Null
    ELSE LET i == Least(DoiMatchStarts(u))
             n == RunLen(u, i + Len(DoiPrefix), Digits)
             slash == i + Len(DoiPrefix) + n
         IN  SubSeq(u, i, slash + DoiTailLen(u, slash + 1))

\* `biorxiv:${doi}`
generatePaperId(doi) == <<"b", "i", "o", "r", "x", "i", "v", ":">> \o doi

(***************************************************************************)
(* String operations used by the parser fallback and by the rewriter       *)
(***************************************************************************)
\* s.replace(/lit/g, rep) for a literal pattern: left to right, no overlap
ReplaceLit(s, lit, rep) ==
    LET RECURSIVE R(_)
        R(i) == IF i > Len(s) THEN <<>>
                ELSE IF LitAt(s, i, lit) THEN rep \o R(i + Len(lit))
                ELSE <<s[i]>> \o R(i + 1)
    IN  R(1)

\* s.replace(/<[^>]*>/g, ' '): a "<" with a later ">" is a tag, up to the first ">"
StripTags(s) ==
    LET Closers(i) == {j \in (i + 1)..Len(s) : s[j] = ">"}
        RECURSIVE R(_)
        R(i) == IF i > Len(s) THEN <<>>
                ELSE IF s[i] = "<" /\ Closers(i) # {} THEN <<" ">> \o R(Least(Closers(i)) + 1)
                ELSE <<s[i]>> \o R(i + 1)
    IN  R(1)

\* s.replace(/\s+/g, ' ')
CollapseSpace(s) ==
    LET RECURSIVE R(_)
        R(i) == IF i > Len(s) THEN <<>>
                ELSE IF s[i] \in WhiteSpace THEN <<" ">> \o R(i + RunLen(s, i, WhiteSpace))
                ELSE <<s[i]>> \o R(i + 1)
    IN  R(1)

\* s.trim()
Trim(s) ==
    LET Solid == {k \in 1..Len(s) : s[k] \notin WhiteSpace}
    IN  IF Solid = {} THEN <<>>
        ELSE SubSeq(s, Least(Solid), CHOOSE m \in Solid : \A n \in Solid : n <= m)

Amp == <<"&", "a", "m", "p", ";">>
Nbsp == <<"&", "n", "b", "s", "p", ";">>
LtEnt == <<"&", "l", "t", ";">>
GtEnt == <<"&", "g", "t", ";">>
QuotEnt == <<"&", "q", "u", "o", "t", ";">>

stripHtml(html) ==
    Trim(CollapseSpace(
        ReplaceLit(ReplaceLit(ReplaceLit(ReplaceLit(ReplaceLit(StripTags(html),
            Nbsp, <<" ">>), Amp, <<"&">>), LtEnt, <<"<">>), GtEnt, <<">">>), QuotEnt, <<"\"">>)))

\* s.split(/\n\n|\r\n\r\n/)
SplitBlankLines(s) ==
    LET LF2 == <<"\n", "\n">>
        CRLF2 == <<"\r", "\n", "\r", "\n">>
        RECURSIVE R(_, _)
        R(i, cur) ==
            IF i > Len(s) THEN <<cur>>
            ELSE IF LitAt(s, i, LF2) THEN <<cur>> \o R(i + Len(LF2), <<>>)
            ELSE IF LitAt(s, i, CRLF2) THEN <<cur>> \o R(i + Len(CRLF2), <<>>)
            ELSE R(i + 1, Append(cur, s[i]))
    IN  R(1, <<>>)

(***************************************************************************)
(* Blocks                                                                  *)
(***************************************************************************)
Heading(level, text) == [kind |-> "heading", level |-> level, text |-> text]

Para(id, html) == [kind |-> "para", id |-> id, text_html |-> html]

Figure(id, url, caption) ==
    [kind |-> "figure", id |-> id, img_url |-> url, caption_html |-> caption]

AbstractTitle == <<"A", "b", "s", "t", "r", "a", "c", "t">>

NoteTitle == <<"N", "o", "t", "e">>

\* stands for the fixed sentence of the note paragraph
NoteText == <<"F", "u", "l", "l", " ", "t", "e", "x", "t", " ", "n", "/", "a">>

IsPara(b) == b.kind = "para"

\* the filter, had it kept every piece of the split
NonBlank_KeepAll(p) == TRUE

NonBlank(p) == Len(Trim(p)) > 0

(***************************************************************************)
(* fetchAndParsePaper, as a function of what the two fetches answer.       *)
(* details: the metadata fetch (found or not; authors present or not).     *)
(* jats: the raw-content fetch and, when found, what the parse yields.     *)
(***************************************************************************)
FetchNull(meta) == [status |-> "null", meta |-> meta, raw |-> 0, parsed |-> 0]

FetchThrow(msg) == [status |-> "throw", message |-> msg, meta |-> 1, raw |-> 0, parsed |-> 0]

FetchOk(doi, details, blocks, raw, parsed) ==
    [status |-> "ok", meta |-> 1, raw |-> raw, parsed |-> parsed,
     data |-> [doi |-> doi, title |-> details.title, blocks |-> blocks,
               abstract |-> details.abstract]]

AbstractOnlyBlocks(abstract) ==
    LET abstractParagraphs == SelectSeq(SplitBlankLines(abstract), NonBlank)
    IN  <<Heading(2, AbstractTitle)>>
        \o [i \in 1..Len(abstractParagraphs) |->
                Para(<<"p">> \o Decimal(i - 1), Trim(abstractParagraphs[i]))]
        \o <<Heading(2, NoteTitle), Para(<<"n", "o", "t", "e">>, NoteText)>>

WithAbstract(abstract, blocks) ==
    IF abstract # <<>> /\ Len(blocks) > 0
    THEN <<Heading(2, AbstractTitle), Para(<<"a", "b", "s", "t", "r", "a", "c", "t">>, abstract)>>
         \o blocks
    ELSE blocks

fetchAndParsePaper(u, details, jats) ==
    LET doi == extractDoiFromUrl(u)
    IN  IF doi = Null THEN FetchNull(0)
        ELSE IF ~details.found THEN FetchNull(1)
        ELSE IF ~details.wellFormed THEN FetchThrow("Cannot read properties of undefined")
        ELSE IF ~jats.found THEN FetchOk(doi, details, AbstractOnlyBlocks(details.abstract), 1, 0)
        ELSE FetchOk(doi, details, WithAbstract(details.abstract, jats.blocks), 1, 1)

(***************************************************************************)
(* The rewriter: rewriteParagraph and the loop of rewriteAllBlocks         *)
(***************************************************************************)
\* a JSON field that is present, and one that is missing (undefined)
Def(v) == [def |-> TRUE, v |-> v]

Undef == [def |-> FALSE]

PlainHeading(level, text) == [kind |-> "heading", level |-> level, text |-> text]

PlainPara(id, text, termIds) == [kind |-> "para", id |-> id, text |-> text, term_ids |-> termIds]

PlainFigure(id) == [kind |-> "figure", id |-> id]

\* What the chat-completion call did: it threw, it answered without content,
\* or it answered with content that JSON.parse rejects or accepts.
FailureKinds == {"network_error", "empty_content", "not_json"}

\* the catch branch of rewriteParagraph
FallbackResult(plainText) == [plain |-> Def(plainText), terms |-> Def(<<>>)]

\* resp.kind = "json": JSON.parse(content) is returned as it is (a cast, no check)
rewriteParagraph(textHtml, resp) ==
    LET plainText == stripHtml(textHtml)
    IN  IF resp.kind \in FailureKinds THEN FallbackResult(plainText) ELSE resp.body

\* the key, had the counter been raised before it was used
TermId_FromOne(n) == <<"t">> \o Decimal(n + 1)

\* `t${termCounter++}`
TermId(n) == <<"t">> \o Decimal(n)

\* the lookup, had it compared the terms as they are written
RECURSIVE FindExisting_CaseSensitive(_, _, _)
FindExisting_CaseSensitive(allTerms, cand, j) ==
    IF j > Len(allTerms) THEN [tag |-> "none"]
    ELSE IF ~allTerms[j].term.def \/ ~cand.term.def THEN [tag |-> "throw"]
    ELSE IF allTerms[j].term.v = cand.term.v THEN [tag |-> "found", id |-> allTerms[j].id]
    ELSE FindExisting_CaseSensitive(allTerms, cand, j + 1)

\* Object.keys(allTerms).find(k => allTerms[k].term.toLowerCase() === term.term.toLowerCase())
\* allTerms is kept in insertion order, which is the order of Object.keys.
RECURSIVE FindExisting(_, _, _)
FindExisting(allTerms, cand, j) ==
    IF j > Len(allTerms) THEN [tag |-> "none"]
    ELSE IF ~allTerms[j].term.def \/ ~cand.term.def THEN [tag |-> "throw"]
    ELSE IF toLowerCase(allTerms[j].term.v) = toLowerCase(cand.term.v)
         THEN [tag |-> "found", id |-> allTerms[j].id]
    ELSE FindExisting(allTerms, cand, j + 1)

\* the body of `for (const term of result.terms)`, folded over the candidates
RECURSIVE CollectTerms(_, _, _)
CollectTerms(cands, k, acc) ==
    IF k > Len(cands) \/ acc.thrown THEN acc
    ELSE LET existingKey == FindExisting(acc.allTerms, cands[k], 1)
         IN  CollectTerms(cands, k + 1,
                CASE existingKey.tag = "throw" -> [acc EXCEPT !.thrown = TRUE]
                  [] existingKey.tag = "found" ->
                        [acc EXCEPT !.termIds = Append(@, existingKey.id)]
                  [] OTHER ->
                        [acc EXCEPT
                            !.allTerms = Append(@, [id |-> TermId(acc.termCounter),
                                                    term |-> cands[k].term,
                                                    simple |-> cands[k].simple]),
                            !.termCounter = @ + 1,
                            !.termIds = Append(@, TermId(acc.termCounter))])

Paragraphs(blocks) == SelectSeq(blocks, IsPara)

\* the state of one call of rewriteAllBlocks; i is the block the loop is at
RwStart(blocks) ==
    [blocks |-> blocks, i |-> 1, plainBlocks |-> <<>>, allTerms |-> <<>>,
     termCounter |-> 0, totalParagraphs |-> Len(Paragraphs(blocks)),
     processedParagraphs |-> 0, status |-> "running", inFlight |-> 0]

RwAtEnd(st) == st.i > Len(st.blocks)

RwBlock(st) == st.blocks[st.i]

\* the pass-through, had it pushed headings only
RwPassThrough_DropFigure(st) ==
    LET block == RwBlock(st)
    IN  [st EXCEPT
            !.plainBlocks = IF block.kind = "heading"
                            THEN Append(@, PlainHeading(block.level, block.text))
                            ELSE @,
            !.i = @ + 1]

\* a heading or figure block: pushed without any call
RwPassThrough(st) ==
    LET block == RwBlock(st)
    IN  [st EXCEPT
            !.plainBlocks = Append(@, IF block.kind = "heading"
                                      THEN PlainHeading(block.level, block.text)
                                      ELSE PlainFigure(block.id)),
            !.i = @ + 1]

\* a paragraph block: rewriteParagraph is called and awaited
RwCall(st) == [st EXCEPT !.status = "awaiting", !.inFlight = @ + 1]

\* the return, had a failed call left the loop at the same paragraph to be
\* called again
RwReturn_RetryOnFailure(st, resp) ==
    LET block == RwBlock(st)
        result == rewriteParagraph(block.text_html, resp)
        merged == IF result.terms.def
                  THEN CollectTerms(result.terms.v, 1,
                          [allTerms |-> st.allTerms, termCounter |-> st.termCounter,
                           termIds |-> <<>>, thrown |-> FALSE])
                  ELSE [allTerms |-> st.allTerms, termCounter |-> st.termCounter,
                        termIds |-> <<>>, thrown |-> TRUE]
    IN  IF resp.kind \in FailureKinds
        THEN [st EXCEPT !.status = "running", !.inFlight = @ - 1]
        ELSE IF merged.thrown
        THEN [st EXCEPT !.status = "thrown", !.inFlight = @ - 1,
                        !.allTerms = merged.allTerms, !.termCounter = merged.termCounter]
        ELSE [st EXCEPT
                !.status = "running", !.inFlight = @ - 1,
                !.allTerms = merged.allTerms, !.termCounter = merged.termCounter,
                !.plainBlocks = Append(@, PlainPara(block.id, result.plain, merged.termIds)),
                !.processedParagraphs = @ + 1,
                !.i = @ + 1]

\* the call has answered resp: terms are merged and the PlainBlock is pushed,
\* or a TypeError leaves the function
RwReturn(st, resp) ==
    LET block == RwBlock(st)
        result == rewriteParagraph(block.text_html, resp)
        merged == IF result.terms.def
                  THEN CollectTerms(result.terms.v, 1,
                          [allTerms |-> st.allTerms, termCounter |-> st.termCounter,
                           termIds |-> <<>>, thrown |-> FALSE])
                  ELSE [allTerms |-> st.allTerms, termCounter |-> st.termCounter,
                        termIds |-> <<>>, thrown |-> TRUE]
    IN  IF merged.thrown
        THEN [st EXCEPT !.status = "thrown", !.inFlight = @ - 1,
                        !.allTerms = merged.allTerms, !.termCounter = merged.termCounter]
        ELSE [st EXCEPT
                !.status = "running", !.inFlight = @ - 1,
                !.allTerms = merged.allTerms, !.termCounter = merged.termCounter,
                !.plainBlocks = Append(@, PlainPara(block.id, result.plain, merged.termIds)),
                !.processedParagraphs = @ + 1,
                !.i = @ + 1]

\* `return { plainBlocks, terms: allTerms }`
RwFinish(st) == [st EXCEPT !.status = "returned"]

TypeErrorMessage == "TypeError: result.terms is not iterable"

(***************************************************************************)
(* Inputs of the rewriter: block sequences and answers of the rewrite      *)
(* capability                                                              *)
(***************************************************************************)
MaxBlocks == 3

MaxParas == 2

Html1 == <<"<", "i", ">", "A", "b", "<", "/", "i", ">", " ", "c">>

Html2 == <<"x", " ", "&", "a", "m", "p", ";", " ", " ", "y">>

SampleHtml == <<Html1, Html2>>

SampleTitle == <<"R", "e", "s", "u", "l", "t", "s">>

SampleImg == <<"h", "t", "t", "p", ":", "/", "/", "i", "/", "f", ".", "g", "i", "f">>

BlockKinds == {"heading", "para", "figure"}

KindSeqs(n) == UNION {[1..m -> BlockKinds] : m \in 0..n}

CountKind(kinds, k, upto) == Cardinality({j \in 1..upto : kinds[j] = k})

\* a block sequence with the given kinds, ids numbered as the parser numbers them
BuildBlocks(kinds) ==
    [j \in 1..Len(kinds) |->
        LET n == CountKind(kinds, kinds[j], j - 1)
        IN  CASE kinds[j] = "heading" -> Heading(IF n = 0 THEN 2 ELSE 3, SampleTitle)
              [] kinds[j] = "para" ->
                    Para(<<"p">> \o Decimal(n), SampleHtml[(n % Len(SampleHtml)) + 1])
              [] OTHER -> Figure(<<"f", "i", "g">> \o Decimal(n), SampleImg, <<"c">>)]

OrchInputs ==
    {BuildBlocks(kinds) : kinds \in {ks \in KindSeqs(MaxBlocks) :
                                        CountKind(ks, "para", Len(ks)) <= MaxParas}}

Cand(term, simple) == [term |-> Def(term), simple |-> Def(simple)]

PlainA == <<"A", "b", " ", "i", "s", " ", "c">>

JsonBody(plain, terms) == [kind |-> "json", body |-> [plain |-> plain, terms |-> terms]]

Failure(kind) == [kind |-> kind, body |-> [plain |-> Undef, terms |-> Undef]]

\* answers whose JSON has the shape { plain: string, terms: [{term, simple}] }
WellFormedResponses ==
    {JsonBody(Def(PlainA), Def(<<>>)),
     JsonBody(Def(PlainA), Def(<<Cand(<<"A", "b">>, <<"x">>)>>)),
     JsonBody(Def(PlainA), Def(<<Cand(<<"a", "b">>, <<"y">>), Cand(<<"c">>, <<"z">>)>>)),
     JsonBody(Def(PlainA), Def(<<Cand(<<"c">>, <<"x">>), Cand(<<"C">>, <<"y">>)>>))}

\* answers that are valid JSON of another shape: no terms, no plain, a term
\* entry without its term field
MalformedResponses ==
    {JsonBody(Def(PlainA), Undef),
     JsonBody(Undef, Def(<<>>)),
     JsonBody(Def(PlainA), Def(<<[term |-> Undef, simple |-> Undef]>>))}

FailedResponses == {Failure(k) : k \in FailureKinds}

Responses == FailedResponses \cup WellFormedResponses \cup MalformedResponses

(***************************************************************************)
(* rewriteAllBlocks on its own: one call, stepped block by block.  log     *)
(* records, for each paragraph, the answer and the glossary around it.     *)
(***************************************************************************)
OrchIdle == [st |-> [RwStart(<<>>) EXCEPT !.status = "returned"], log |-> <<>>]

ParserIdle == [phase |-> "idle"]

ProxyIdle == [phase |-> "idle"]

BarIdle == [phase |-> "idle"]

HlIdle == [phase |-> "idle"]

OrchPassThrough ==
    /\ orch.st.status = "running"
    /\ ~RwAtEnd(orch.st)
    /\ RwBlock(orch.st).kind # "para"
    /\ orch' = [orch EXCEPT !.st = RwPassThrough(@)]
    /\ UNCHANGED <<streamVars, hl, parser, proxy, bar>>

OrchCall ==
    /\ orch.st.status = "running"
    /\ ~RwAtEnd(orch.st)
    /\ RwBlock(orch.st).kind = "para"
    /\ orch' = [orch EXCEPT !.st = RwCall(@)]
    /\ UNCHANGED <<streamVars, hl, parser, proxy, bar>>

OrchReturn ==
    /\ orch.st.status = "awaiting"
    /\ \E resp \in Responses :
          LET after == RwReturn(orch.st, resp)
          IN  orch' = [st |-> after,
                       log |-> Append(orch.log,
                                 [i |-> orch.st.i, resp |-> resp,
                                  before |-> orch.st.allTerms,
                                  after |-> after.allTerms,
                                  thrown |-> after.status = "thrown"])]
    /\ UNCHANGED <<streamVars, hl, parser, proxy, bar>>

OrchFinish ==
    /\ orch.st.status = "running"
    /\ RwAtEnd(orch.st)
    /\ orch' = [orch EXCEPT !.st = RwFinish(@)]
    /\ UNCHANGED <<streamVars, hl, parser, proxy, bar>>

(***************************************************************************)
(* Requests: a page load (load) that may hand over to the processing       *)
(* stream (GET /api/process), or a direct call of the processing stream    *)
(***************************************************************************)
Runs == {1, 2}

Scheme == <<"h", "t", "t", "p", "s", ":", "/", "/">>

\* https://biorxiv.org/content/10.1101/213
UrlGood == Scheme \o BioRxivPrefix \o <<"1", "1", "0", "1", "/", "2", "1", "3">>

\* https://biorxiv.org/content/10.1101 : the supported shape, but no identifier
UrlNoId == Scheme \o BioRxivPrefix \o <<"1", "1", "0", "1">>

\* https://ex.org/10.1101/213 : an identifier, but not the supported shape
UrlForeign == Scheme \o <<"e", "x", ".", "o", "r", "g", "/", "1", "0", ".",
                          "1", "1", "0", "1", "/", "2", "1", "3">>

\* https://biorxiv.org/content/10.1101/213?v : the same identifier as UrlGood
UrlGoodQuery == UrlGood \o <<"?", "v">>

SampleUrls == {UrlGood, UrlGoodQuery, UrlNoId, UrlForeign}

CacheIds == {generatePaperId(extractDoiFromUrl(u)) : u \in {v \in SampleUrls : extractDoiFromUrl(v) # Null}}

NoRow == [present |-> FALSE]

\* the query, had it never found a row
CacheHit_Never(c, id) == FALSE

\* db.select().from(papers).where(eq(papers.id, paperId)).limit(1)
CacheHit(c, id) == id \in DOMAIN c /\ c[id].present

\* the insert, had it left an existing row alone (onConflictDoNothing)
Upsert_KeepFirst(c, id, sourceUrl, paper) ==
    [c EXCEPT ![id] = IF c[id].present
                      THEN c[id]
                      ELSE [present |-> TRUE, sourceUrl |-> sourceUrl, data |-> paper]]

\* db.insert(papers).values({id, sourceUrl, data}).onConflictDoUpdate({set: {data}})
Upsert(c, id, sourceUrl, paper) ==
    [c EXCEPT ![id] = IF c[id].present
                      THEN [c[id] EXCEPT !.data = paper]
                      ELSE [present |-> TRUE, sourceUrl |-> sourceUrl, data |-> paper]]

SampleAbstract == <<"a", " ", " ", "b">>

FoundDetails(abstract) ==
    [found |-> TRUE, wellFormed |-> TRUE, title |-> SampleTitle, abstract |-> abstract]

NotFound == [found |-> FALSE]

\* What the two fetches of fetchAndParsePaper may answer, as <<details, jats>>:
\* details is nothing, a record without its authors field, or a record with or
\* without an abstract; jats is nothing, or markup with the blocks its parse yields.
FetchAnswers ==
    {<<NotFound, NotFound>>,
     <<[found |-> TRUE, wellFormed |-> FALSE], NotFound>>,
     <<FoundDetails(SampleAbstract), NotFound>>,
     <<FoundDetails(SampleAbstract), [found |-> TRUE, blocks |-> <<>>]>>,
     <<FoundDetails(<<>>), [found |-> TRUE, blocks |-> BuildBlocks(<<"heading", "figure">>)]>>}

\* the answers of the rewrite capability as far as the stream tells them apart
StreamResponses ==
    {Failure("network_error"),
     JsonBody(Def(PlainA), Def(<<Cand(<<"A", "b">>, <<"x">>)>>)),
     JsonBody(Def(PlainA), Undef)}

\* what the database client may do on a query: answer, or throw
DbAnswers == {"ok", "throws"}

DbErrorMessage == "connect ECONNREFUSED"

MsgFetch == "Could not fetch this paper from bioRxiv."

MsgParse == "Could not parse paper content."

ProgressEvent(stage, progress, sub) ==
    [type |-> "progress", stage |-> stage, progress |-> progress, sub |-> sub]

ReadyEvent(paper) == [type |-> "terminal", status |-> "ready", paper |-> paper]

ErrorEvent(message) == [type |-> "terminal", status |-> "error", message |-> message]

\* controller.enqueue of one progress event
sendProgress(ev, stage, progress, sub) == Append(ev, ProgressEvent(stage, progress, sub))

\* a thrown value: an Error object with its message
Thrown(message) == [isError |-> TRUE, message |-> message]

GenericMessage == "An unexpected error occurred"

\* err instanceof Error ? err.message : 'An unexpected error occurred'
CatchMessage(err) == IF err.isError THEN err.message ELSE GenericMessage

\* the error branch, had it left out controller.close()
EnqueueError_NoClose(ev, message) ==
    [events |-> Append(ev, ErrorEvent(message)), closed |-> FALSE]

\* an error terminal event followed by controller.close(): [events, closed]
EnqueueError(ev, message) == [events |-> Append(ev, ErrorEvent(message)), closed |-> TRUE]

\* the 'complete' progress event, the ready terminal event and controller.close()
EnqueueReady(ev, paper) ==
    [events |-> Append(sendProgress(ev, "complete", 100, <<>>), ReadyEvent(paper)),
     closed |-> TRUE]

(***************************************************************************)
(* Number arithmetic of the progress callback.  A Number is an IEEE 754    *)
(* double.  Its 53-bit significand is held in three digits of base 2^18:   *)
(* a (17 bits, the leading bit set), b and c; the value of the Number is   *)
(* (a * 2^36 + b * 2^18 + c) * 2^e.  Division and multiplication round to  *)
(* nearest, ties to even.                                                  *)
(***************************************************************************)
RECURSIVE Pow2(_)
Pow2(n) == IF n = 0 THEN 1 ELSE 2 * Pow2(n - 1)

Base == Pow2(18)

LeadingBit == Pow2(16)

\* the least z with n * 2^z >= d
RECURSIVE LeadShift(_, _)
LeadShift(n, d) == IF n >= d THEN 0 ELSE 1 + LeadShift(2 * n, d)

\* the significand plus one unit in the last place
Increment(x) ==
    IF x.c + 1 < Base THEN [x EXCEPT !.c = @ + 1]
    ELSE IF x.b + 1 < Base THEN [x EXCEPT !.c = 0, !.b = @ + 1]
    ELSE IF x.a + 1 < 2 * LeadingBit THEN [x EXCEPT !.c = 0, !.b = 0, !.a = @ + 1]
    ELSE [a |-> LeadingBit, b |-> 0, c |-> 0, e |-> x.e + 1]

\* x is the exact value cut off after the last place, and what was cut off
\* is rest / unit of a unit in the last place
RoundNearestEven(x, rest, unit) ==
    IF 2 * rest > unit \/ (2 * rest = unit /\ x.c % 2 = 1) THEN Increment(x) ELSE x

\* n / d in Number arithmetic, for integers 1 <= n <= d < 2^13
NumberDivide(n, d) ==
    LET z == LeadShift(n, d)
        r0 == n * Pow2(z) - d
        ra == (r0 * LeadingBit) % d
        rb == (ra * Base) % d
        rc == (rb * Base) % d
    IN  RoundNearestEven([a |-> LeadingBit + ((r0 * LeadingBit) \div d),
                          b |-> (ra * Base) \div d,
                          c |-> (rb * Base) \div d,
                          e |-> 0 - z - 52],
                         rc, d)

\* x * k in Number arithmetic, for an integer 1 <= k < 2^13
NumberTimes(x, k) ==
    LET c0 == x.c * k
        b0 == x.b * k + (c0 \div Base)
        a0 == x.a * k + (b0 \div Base)
        s == LeadShift(2 * LeadingBit, a0 + 1)
        p == Pow2(s)
        up == Base \div p
    IN  RoundNearestEven([a |-> a0 \div p,
                          b |-> ((b0 % Base) \div p) + (a0 % p) * up,
                          c |-> ((c0 % Base) \div p) + ((b0 % Base) % p) * up,
                          e |-> x.e + s],
                         (c0 % Base) % p, p)

\* Math.floor of a Number 0 <= x < 2^17
MathFloor(x) ==
    LET down == 0 - x.e - 36
    IN  IF down >= 17 THEN 0 ELSE x.a \div Pow2(down)

\* the percentage, had the fraction been scaled to the whole bar
RewriteProgress_WholeBar(processed, total) == 25 + ((processed * 100) \div total)

\* 25 + Math.floor((processedParagraphs / total) * 70)
RewriteProgress(processed, total) ==
    25 + MathFloor(NumberTimes(NumberDivide(processed, total), 70))

\* the callback handed to rewriteAllBlocks, processedParagraphs already counted up
onProgress(ev, processed, total) ==
    sendProgress(ev, "rewriting", RewriteProgress(processed, total), <<processed, total>>)

ReqIdle == [entry |-> "none", url |-> <<>>, refresh |-> FALSE, hitAtStart |-> FALSE,
            streamed |-> FALSE]

\* fetch: how the last call of fetchAndParsePaper ended (none yet, null, throw, ok)
LocalIdle == [paperData |-> <<>>, processedParagraphs |-> 0, paper |-> <<>>, fetch |-> "none"]

CallsIdle == [meta |-> 0, raw |-> 0, parsed |-> 0, rewrite |-> 0,
              cacheReads |-> 0, cacheWrites |-> 0]

RwIdle == [RwStart(<<>>) EXCEPT !.status = "idle"]

StreamIdle ==
    /\ cache = [id \in CacheIds |-> NoRow]
    /\ pc = [r \in Runs |-> "idle"]
    /\ req = [r \in Runs |-> ReqIdle]
    /\ local = [r \in Runs |-> LocalIdle]
    /\ rw = [r \in Runs |-> RwIdle]
    /\ events = [r \in Runs |-> <<>>]
    /\ closed = [r \in Runs |-> FALSE]
    /\ outcome = [r \in Runs |-> "none"]
    /\ calls = [r \in Runs |-> CallsIdle]

HitFor(c, u) ==
    extractDoiFromUrl(u) # Null /\ CacheHit(c, generatePaperId(extractDoiFromUrl(u)))

CountFetch(c, f) ==
    [c EXCEPT !.meta = @ + f.meta, !.raw = @ + f.raw, !.parsed = @ + f.parsed]

\* the stream ends: the events and closed flag of `end`, nothing left to run
StreamEnds(r, end) ==
    /\ events' = [events EXCEPT ![r] = end.events]
    /\ closed' = [closed EXCEPT ![r] = end.closed]
    /\ pc' = [pc EXCEPT ![r] = "done"]

\* load, up to the call of fetchAndParsePaper
PageLoad(r) ==
    /\ pc[r] = "idle"
    /\ \E u \in SampleUrls, refresh \in BOOLEAN :
          /\ req' = [req EXCEPT ![r] = [entry |-> "page", url |-> u, refresh |-> refresh,
                                        hitAtStart |-> HitFor(cache, u), streamed |-> FALSE]]
          /\ IF isBioRxivUrl(u)
             THEN pc' = [pc EXCEPT ![r] = "load_fetch"] /\ UNCHANGED outcome
             ELSE pc' = [pc EXCEPT ![r] = "done"] /\ outcome' = [outcome EXCEPT ![r] = "http400"]
    /\ UNCHANGED <<cache, local, rw, events, closed, calls, orch, hl, parser, proxy, bar>>

\* the tail of load: the empty-blocks check and the 'processing' answer
LoadAnswer(blocks) == IF Len(blocks) = 0 THEN "http500_parse" ELSE "processing"

\* load, from the answer of fetchAndParsePaper to the cache query or the return
LoadFetched(r) ==
    /\ pc[r] = "load_fetch"
    /\ \E answer \in FetchAnswers :
          LET f == fetchAndParsePaper(req[r].url, answer[1], answer[2])
          IN  /\ calls' = [calls EXCEPT ![r] = CountFetch(@, f)]
              /\ CASE f.status = "throw" ->
                        /\ outcome' = [outcome EXCEPT ![r] = "http500_unexpected"]
                        /\ pc' = [pc EXCEPT ![r] = "done"]
                        /\ local' = [local EXCEPT ![r].fetch = f.status]
                   [] f.status = "null" ->
                        /\ outcome' = [outcome EXCEPT ![r] = "pending"]
                        /\ pc' = [pc EXCEPT ![r] = "done"]
                        /\ local' = [local EXCEPT ![r].fetch = f.status]
                   [] OTHER ->
                        /\ local' = [local EXCEPT ![r].paperData = f.data, ![r].fetch = f.status]
                        /\ IF req[r].refresh
                           THEN /\ outcome' = [outcome EXCEPT ![r] = LoadAnswer(f.data.blocks)]
                                /\ pc' = [pc EXCEPT ![r] =
                                            IF Len(f.data.blocks) = 0 THEN "done" ELSE "client"]
                           ELSE /\ pc' = [pc EXCEPT ![r] = "load_cache"]
                                /\ UNCHANGED outcome
    /\ UNCHANGED <<cache, req, rw, events, closed, orch, hl, parser, proxy, bar>>

\* load, from the answer of the cache query to the return
LoadCacheCheck(r) ==
    /\ pc[r] = "load_cache"
    /\ \E db \in DbAnswers :
          IF db = "throws"
          THEN /\ outcome' = [outcome EXCEPT ![r] = "http500_unexpected"]
               /\ pc' = [pc EXCEPT ![r] = "done"]
               /\ UNCHANGED calls
          ELSE /\ calls' = [calls EXCEPT ![r].cacheReads = @ + 1]
               /\ IF CacheHit(cache, generatePaperId(local[r].paperData.doi))
                  THEN /\ outcome' = [outcome EXCEPT ![r] = "ready"]
                       /\ pc' = [pc EXCEPT ![r] = "done"]
                  ELSE /\ outcome' = [outcome EXCEPT ![r] = LoadAnswer(local[r].paperData.blocks)]
                       /\ pc' = [pc EXCEPT ![r] =
                                   IF Len(local[r].paperData.blocks) = 0 THEN "done" ELSE "client"]
    /\ UNCHANGED <<cache, req, local, rw, events, closed, orch, hl, parser, proxy, bar>>

\* GET, from the request to the first await of the stream's start()
GetStart(r, u) ==
    IF ~isBioRxivUrl(u)
    THEN /\ outcome' = [outcome EXCEPT ![r] = "http400"]
         /\ pc' = [pc EXCEPT ![r] = "done"]
         /\ UNCHANGED events
    ELSE /\ UNCHANGED outcome
         /\ IF extractDoiFromUrl(u) # Null
            THEN pc' = [pc EXCEPT ![r] = "get_cache"] /\ UNCHANGED events
            ELSE /\ pc' = [pc EXCEPT ![r] = "get_fetch"]
                 /\ events' = [events EXCEPT ![r] = sendProgress(@, "fetching", 5, <<>>)]

\* the page's $effect opens the EventSource on the url that load returned
ClientOpenStream(r) ==
    /\ pc[r] = "client"
    /\ req' = [req EXCEPT ![r].streamed = TRUE]
    /\ GetStart(r, req[r].url)
    /\ UNCHANGED <<cache, local, rw, closed, calls, orch, hl, parser, proxy, bar>>

\* a direct request of /api/process?url=...
ApiRequest(r) ==
    /\ pc[r] = "idle"
    /\ \E u \in SampleUrls :
          /\ req' = [req EXCEPT ![r] = [entry |-> "api", url |-> u, refresh |-> FALSE,
                                        hitAtStart |-> HitFor(cache, u),
                                        streamed |-> isBioRxivUrl(u)]]
          /\ GetStart(r, u)
    /\ UNCHANGED <<cache, local, rw, closed, calls, orch, hl, parser, proxy, bar>>

\* GET, from the answer of the cache query to the call of fetchAndParsePaper
GetCacheCheck(r) ==
    /\ pc[r] = "get_cache"
    /\ \E db \in DbAnswers :
          LET paperId == generatePaperId(extractDoiFromUrl(req[r].url))
          IN  IF db = "throws"
              THEN StreamEnds(r, EnqueueError(events[r], CatchMessage(Thrown(DbErrorMessage)))) /\ UNCHANGED calls
              ELSE /\ calls' = [calls EXCEPT ![r].cacheReads = @ + 1]
                   /\ IF CacheHit(cache, paperId)
                      THEN StreamEnds(r, EnqueueReady(events[r], cache[paperId].data))
                      ELSE /\ events' = [events EXCEPT ![r] = sendProgress(@, "fetching", 5, <<>>)]
                           /\ pc' = [pc EXCEPT ![r] = "get_fetch"]
                           /\ UNCHANGED closed
    /\ UNCHANGED <<cache, req, local, rw, outcome, orch, hl, parser, proxy, bar>>

\* the events between the answer of fetchAndParsePaper and the rewriting loop
FetchedEvents(ev, blocks) ==
    LET parsing == sendProgress(sendProgress(ev, "fetching", 15, <<>>), "parsing", 20, <<>>)
    IN  IF Len(blocks) = 0 THEN EnqueueError(parsing, MsgParse)
        ELSE [events |-> sendProgress(sendProgress(parsing, "parsing", 25, <<>>),
                            "rewriting", 25, <<0, Len(Paragraphs(blocks))>>),
              closed |-> FALSE]

\* GET, from the answer of fetchAndParsePaper to the call of rewriteAllBlocks
GetFetched(r) ==
    /\ pc[r] = "get_fetch"
    /\ \E answer \in FetchAnswers :
          LET f == fetchAndParsePaper(req[r].url, answer[1], answer[2])
          IN  /\ calls' = [calls EXCEPT ![r] = CountFetch(@, f)]
              /\ CASE f.status = "throw" ->
                        /\ StreamEnds(r, EnqueueError(events[r], CatchMessage(Thrown(f.message))))
                        /\ local' = [local EXCEPT ![r].fetch = f.status]
                        /\ UNCHANGED rw
                   [] f.status = "null" ->
                        /\ StreamEnds(r, EnqueueError(events[r], MsgFetch))
                        /\ local' = [local EXCEPT ![r].fetch = f.status]
                        /\ UNCHANGED rw
                   [] OTHER ->
                        LET after == FetchedEvents(events[r], f.data.blocks)
                        IN  /\ local' = [local EXCEPT ![r].paperData = f.data, ![r].fetch = f.status]
                            /\ events' = [events EXCEPT ![r] = after.events]
                            /\ closed' = [closed EXCEPT ![r] = after.closed]
                            /\ IF after.closed
                               THEN pc' = [pc EXCEPT ![r] = "done"] /\ UNCHANGED rw
                               ELSE /\ pc' = [pc EXCEPT ![r] = "get_rewrite"]
                                    /\ rw' = [rw EXCEPT ![r] = RwStart(f.data.blocks)]
    /\ UNCHANGED <<cache, req, outcome, orch, hl, parser, proxy, bar>>

\* rewriteAllBlocks inside GET: a heading or a figure
GetPassThrough(r) ==
    /\ pc[r] = "get_rewrite"
    /\ rw[r].status = "running"
    /\ ~RwAtEnd(rw[r])
    /\ RwBlock(rw[r]).kind # "para"
    /\ rw' = [rw EXCEPT ![r] = RwPassThrough(@)]
    /\ UNCHANGED <<cache, pc, req, local, events, closed, outcome, calls, orch, hl, parser, proxy, bar>>

\* rewriteAllBlocks inside GET: a paragraph, the call goes out
GetRewriteCall(r) ==
    /\ pc[r] = "get_rewrite"
    /\ rw[r].status = "running"
    /\ ~RwAtEnd(rw[r])
    /\ RwBlock(rw[r]).kind = "para"
    /\ rw' = [rw EXCEPT ![r] = RwCall(@)]
    /\ calls' = [calls EXCEPT ![r].rewrite = @ + 1]
    /\ UNCHANGED <<cache, pc, req, local, events, closed, outcome, orch, hl, parser, proxy, bar>>

\* rewriteAllBlocks inside GET: the call answers; onProgress reports, or the
\* TypeError reaches the catch of start()
GetRewriteReturn(r) ==
    /\ pc[r] = "get_rewrite"
    /\ rw[r].status = "awaiting"
    /\ \E resp \in StreamResponses :
          LET after == RwReturn(rw[r], resp)
              processed == local[r].processedParagraphs + 1
          IN  /\ rw' = [rw EXCEPT ![r] = after]
              /\ IF after.status = "thrown"
                 THEN StreamEnds(r, EnqueueError(events[r], CatchMessage(Thrown(TypeErrorMessage)))) /\ UNCHANGED local
                 ELSE /\ local' = [local EXCEPT ![r].processedParagraphs = processed]
                      /\ events' = [events EXCEPT ![r] =
                            onProgress(@, processed, after.totalParagraphs)]
                      /\ UNCHANGED <<pc, closed>>
    /\ UNCHANGED <<cache, req, outcome, calls, orch, hl, parser, proxy, bar>>

\* the Paper that GET builds from paperData and the result of rewriteAllBlocks
BuildPaper(u, data, st) ==
    [id |-> generatePaperId(data.doi), sourceUrl |-> u, title |-> data.title,
     blocks |-> data.blocks, plain |-> [blocks |-> st.plainBlocks, terms |-> st.allTerms]]

\* GET, from the return of rewriteAllBlocks to the upsert being sent
GetSaving(r) ==
    /\ pc[r] = "get_rewrite"
    /\ rw[r].status = "running"
    /\ RwAtEnd(rw[r])
    /\ rw' = [rw EXCEPT ![r] = RwFinish(@)]
    /\ events' = [events EXCEPT ![r] = sendProgress(@, "saving", 95, <<>>)]
    /\ local' = [local EXCEPT ![r].paper = BuildPaper(req[r].url, local[r].paperData, rw[r])]
    /\ pc' = [pc EXCEPT ![r] = "get_save"]
    /\ UNCHANGED <<cache, req, closed, outcome, calls, orch, hl, parser, proxy, bar>>

\* the saving step, had a failure of the upsert been reported after the row
\* was written
GetCacheWrite_ErrorAfterWrite(r) ==
    /\ pc[r] = "get_save"
    /\ \E db \in DbAnswers :
          IF db = "throws"
          THEN /\ cache' = Upsert(cache, local[r].paper.id, req[r].url, local[r].paper)
               /\ StreamEnds(r, EnqueueError(events[r], CatchMessage(Thrown(DbErrorMessage))))
               /\ UNCHANGED calls
          ELSE /\ cache' = Upsert(cache, local[r].paper.id, req[r].url, local[r].paper)
               /\ calls' = [calls EXCEPT ![r].cacheWrites = @ + 1]
               /\ pc' = [pc EXCEPT ![r] = "get_saved"]
               /\ UNCHANGED <<events, closed>>
    /\ UNCHANGED <<req, local, rw, outcome, orch, hl, parser, proxy, bar>>

\* the upsert runs in the database, or the client throws
GetCacheWrite(r) ==
    /\ pc[r] = "get_save"
    /\ \E db \in DbAnswers :
          IF db = "throws"
          THEN /\ StreamEnds(r, EnqueueError(events[r], CatchMessage(Thrown(DbErrorMessage))))
               /\ UNCHANGED <<cache, calls>>
          ELSE /\ cache' = Upsert(cache, local[r].paper.id, req[r].url, local[r].paper)
               /\ calls' = [calls EXCEPT ![r].cacheWrites = @ + 1]
               /\ pc' = [pc EXCEPT ![r] = "get_saved"]
               /\ UNCHANGED <<events, closed>>
    /\ UNCHANGED <<req, local, rw, outcome, orch, hl, parser, proxy, bar>>

\* GET, after the upsert has returned
GetComplete(r) ==
    /\ pc[r] = "get_saved"
    /\ StreamEnds(r, EnqueueReady(events[r], local[r].paper))
    /\ UNCHANGED <<cache, req, local, rw, outcome, calls, orch, hl, parser, proxy, bar>>

Init ==
    /\ StreamIdle
    /\ orch = OrchIdle
    /\ hl = HlIdle
    /\ parser = ParserIdle
    /\ proxy = ProxyIdle
    /\ bar = BarIdle

Next ==
    \E r \in Runs :
        \/ PageLoad(r)
        \/ LoadFetched(r)
        \/ LoadCacheCheck(r)
        \/ ClientOpenStream(r)
        \/ ApiRequest(r)
        \/ GetCacheCheck(r)
        \/ GetFetched(r)
        \/ GetPassThrough(r)
        \/ GetRewriteCall(r)
        \/ GetRewriteReturn(r)
        \/ GetSaving(r)
        \/ GetCacheWrite(r)
        \/ GetComplete(r)

Spec == Init /\ [][Next]_vars

InitRewrite ==
    /\ StreamIdle
    /\ hl = HlIdle
    /\ parser = ParserIdle
    /\ proxy = ProxyIdle
    /\ bar = BarIdle
    /\ orch \in {[st |-> RwStart(blocks), log |-> <<>>] : blocks \in OrchInputs}

NextRewrite == OrchPassThrough \/ OrchCall \/ OrchReturn \/ OrchFinish

SpecRewrite == InitRewrite /\ [][NextRewrite]_vars

(***************************************************************************)
(* The structural parser: parseJatsXmlToBlocks over a source document.     *)
(* A document is its body (a sequence of elements) and its floats-group (a  *)
(* sequence of fig elements, placed after the body).  An element is a sec   *)
(* (title, children), a p (text) or a fig (id attribute, graphic href).     *)
(***************************************************************************)
SecEl(title, children) == [tag |-> "sec", title |-> title, children |-> children]

PEl(text) == [tag |-> "p", text |-> text]

FigEl(id, href) == [tag |-> "fig", id |-> id, href |-> href, caption |-> <<"c">>]

\* text.length > 20
MinParaLen == 20

\* str.includes(lit)
Includes(str, lit) == \E i \in 1..Len(str) : LitAt(str, i, lit)

ReferenceWord == <<"r", "e", "f", "e", "r", "e", "n", "c", "e">>

HttpWord == <<"h", "t", "t", "p">>

\* https://www.biorxiv.org/content/biorxiv/early/
EarlyBase ==
    Scheme \o <<"w", "w", "w", ".", "b", "i", "o", "r", "x", "i", "v", ".", "o", "r", "g", "/">>
           \o <<"c", "o", "n", "t", "e", "n", "t", "/", "b", "i", "o", "r", "x", "i", "v", "/", "e", "a", "r", "l", "y", "/">>

\* $clone.text().trim().replace(/\s+/g, ' ')
getTextContent(el) == CollapseSpace(Trim(el.text))

FigId(counter) == <<"f", "i", "g">> \o Decimal(counter)

\* extractFigure: no block (the empty sequence) when the graphic has no href
extractFigure(fig, counter) ==
    IF ~fig.href.def THEN <<>>
    ELSE <<Figure(FigId(counter),
                  IF LitAt(fig.href.v, 1, HttpWord) THEN fig.href.v ELSE EarlyBase \o fig.href.v,
                  Trim(fig.caption))>>

\* the locals of parseJatsXmlToBlocks; src records, for each block, the place
\* in the document of the element it was made from
ParseStart == [blocks |-> <<>>, src |-> <<>>, paraCounter |-> 0, figureCounter |-> 0]

PushBlock(st, block, path) ==
    [st EXCEPT !.blocks = Append(@, block), !.src = Append(@, path)]

\* the level of a heading, had every nested section counted one level deeper
HeadingLevel_ByDepth(nestingLevel) == 2 + nestingLevel

\* nestingLevel === 0 ? 2 : 3
HeadingLevel(nestingLevel) == IF nestingLevel = 0 THEN 2 ELSE 3

\* the title part of processSection
PushTitle(sec, path, nestingLevel, st) ==
    LET sectionTitle == Trim(sec.title)
    IN  IF sectionTitle # <<>> /\ ~Includes(toLowerCase(sectionTitle), ReferenceWord)
        THEN PushBlock(st, Heading(HeadingLevel(nestingLevel), sectionTitle), path)
        ELSE st

\* the push of a paragraph, had paraCounter not been advanced
PushPara_SameCounter(p, path, st) ==
    LET text == getTextContent(p)
    IN  IF Len(text) > MinParaLen
        THEN PushBlock(st, Para(<<"p">> \o Decimal(st.paraCounter), text), path)
        ELSE st

\* a p element: kept when its text is longer than 20 characters
PushPara(p, path, st) ==
    LET text == getTextContent(p)
    IN  IF Len(text) > MinParaLen
        THEN [PushBlock(st, Para(<<"p">> \o Decimal(st.paraCounter), text), path)
                EXCEPT !.paraCounter = @ + 1]
        ELSE st

\* extractFigure($, $fig, figureCounter++) and the push of its block, if any
PushFigure(fig, path, st) ==
    LET figBlock == extractFigure(fig, st.figureCounter)
        counted == [st EXCEPT !.figureCounter = @ + 1]
    IN  IF figBlock # <<>> THEN PushBlock(counted, figBlock[1], path) ELSE counted

RECURSIVE processSection(_, _, _, _)
processSection(sec, path, nestingLevel, st) ==
    LET RECURSIVE Children(_, _)
        Children(k, s) ==
            IF k > Len(sec.children) THEN s
            ELSE LET child == sec.children[k]
                     at == Append(path, k)
                 IN  Children(k + 1,
                        CASE child.tag = "p" -> PushPara(child, at, s)
                          [] child.tag = "fig" -> PushFigure(child, at, s)
                          [] child.tag = "sec" -> processSection(child, at, nestingLevel + 1, s)
                          [] OTHER -> s)
    IN  Children(1, PushTitle(sec, path, nestingLevel, st))

\* the main walk: the sections of the body, or else the paragraphs of the body
MainWalk(doc) ==
    LET hasSections == \E k \in 1..Len(doc.body) : doc.body[k].tag = "sec"
        RECURSIVE Walk(_, _)
        Walk(k, s) ==
            IF k > Len(doc.body) THEN s
            ELSE LET el == doc.body[k]
                 IN  Walk(k + 1,
                        IF hasSections /\ el.tag = "sec" THEN processSection(el, <<1, k>>, 0, s)
                        ELSE IF ~hasSections /\ el.tag = "p" THEN PushPara(el, <<1, k>>, s)
                        ELSE s)
    IN  Walk(1, ParseStart)

\* the fig elements below a sequence of elements, in document order, each
\* with its place
RECURSIVE FigsBelow(_, _)
FigsBelow(els, path) ==
    LET RECURSIVE From(_)
        From(k) ==
            IF k > Len(els) THEN <<>>
            ELSE (CASE els[k].tag = "fig" -> <<[el |-> els[k], at |-> Append(path, k)]>>
                    [] els[k].tag = "sec" -> FigsBelow(els[k].children, Append(path, k))
                    [] OTHER -> <<>>)
                 \o From(k + 1)
    IN  From(1)

\* $('floats-group fig, body fig'), in document order
SelectFigs(doc) == FigsBelow(doc.body, <<1>>) \o FigsBelow(doc.floats, <<2>>)

\* blocks.some((b) => b.kind === 'figure' && b.id === figId)
AlreadyAdded(st, f) ==
    \E k \in 1..Len(st.blocks) :
        st.blocks[k].kind = "figure" /\ f.el.id.def /\ st.blocks[k].id = f.el.id.v

\* the scan of the figures after the main walk
FloatsScan(doc, st) ==
    LET figs == SelectFigs(doc)
        RECURSIVE Scan(_, _)
        Scan(k, s) ==
            IF k > Len(figs) THEN s
            ELSE Scan(k + 1, IF AlreadyAdded(s, figs[k]) THEN s
                             ELSE PushFigure(figs[k].el, figs[k].at, s))
    IN  Scan(1, st)

parseJatsXmlToBlocks(doc) == FloatsScan(doc, MainWalk(doc))

(***************************************************************************)
(* Documents and metadata for the parser                                   *)
(***************************************************************************)
MaxKids == 2

MaxDepth == 3

MaxAbsParas == 2

\* 21 characters once trimmed and collapsed
LongText == <<" ">> \o [k \in 1..10 |-> "x"] \o <<" ", " ">> \o [k \in 1..10 |-> "x"]

\* 22 characters as written, 20 once trimmed and collapsed
ShortText == [k \in 1..10 |-> "y"] \o <<" ", " ">> \o [k \in 1..9 |-> "y"] \o <<" ">>

RefTitle == <<"R", "e", "f", "e", "r", "e", "n", "c", "e", "s">>

BlankTitle == <<" ">>

Titles == {SampleTitle, RefTitle, BlankTitle}

RelHref == <<"F", "1", ".", "g", "i", "f">>

\* a figure of the body with id F1, and one whose graphic has no href
BodyFig == FigEl(Def(<<"F", "1">>), Def(RelHref))

BareFig == FigEl(Undef, Undef)

Leaves == {PEl(LongText), PEl(ShortText), BodyFig, BareFig}

KidSeqs(S) == UNION {[1..n -> S] : n \in 0..MaxKids}

\* a section holding leaves only
FlatSecs == {SecEl(t, kids) : t \in Titles, kids \in KidSeqs(Leaves)}

\* sections nested d deep: the innermost holds one paragraph or figure, each
\* outer one holds the next inner one, alone, after a paragraph or before a figure
RECURSIVE SecsOfDepth(_)
SecsOfDepth(d) ==
    IF d = 1 THEN {SecEl(t, <<l>>) : t \in Titles, l \in {PEl(LongText), BodyFig}}
    ELSE UNION {{SecEl(t, <<inner>>), SecEl(t, <<PEl(LongText), inner>>),
                 SecEl(t, <<inner, BodyFig>>)} :
                    t \in Titles, inner \in SecsOfDepth(d - 1)}

Bodies ==
    KidSeqs(Leaves)
    \cup {<<s>> : s \in FlatSecs}
    \cup UNION {{<<s>> : s \in SecsOfDepth(d)} : d \in 2..MaxDepth}
    \cup UNION {{<<l, s>>, <<s, l>>, <<s, SecEl(SampleTitle, <<l>>)>>} :
                    l \in Leaves, s \in FlatSecs}

\* the floats-group: absent, or a figure with an id of its own, absolute href
FloatFig == FigEl(Def(<<"F", "2">>), Def(HttpWord \o <<":", "/", "/", "h", "/", "2">>))

\* a floats-group figure whose id attribute reads like a minted block id
MintLikeFig == FigEl(Def(FigId(0)), Def(RelHref))

FloatsGroups == {<<>>, <<FloatFig>>, <<MintLikeFig>>}

Docs == {[body |-> b, floats |-> f] : b \in Bodies, f \in FloatsGroups}

\* abstracts: paragraphs joined by a separator
AbsParas == {<<"a">>, <<"b", " ", "c">>, <<"d", " ">>}

LF == <<"\n">>

CRLF == <<"\r", "\n">>

Separators == {LF \o LF, CRLF \o CRLF, LF \o LF \o LF, LF \o LF \o LF \o LF}

RECURSIVE Join(_, _)
Join(paras, sep) ==
    IF Len(paras) = 0 THEN <<>>
    ELSE IF Len(paras) = 1 THEN paras[1]
    ELSE paras[1] \o sep \o Join(Tail(paras), sep)

AbsParaSeqs == UNION {[1..n -> AbsParas] : n \in 0..MaxAbsParas}

\* the inputs of one call: the metadata answer, the raw-content answer, and
\* (for the abstract) the paragraphs it was written from
ParserInputs ==
    {[details |-> FoundDetails(Join(ps, sep)), jats |-> NotFound, paras |-> ps] :
        ps \in AbsParaSeqs, sep \in Separators}
    \cup {[details |-> FoundDetails(a), jats |-> [found |-> TRUE, doc |-> d], paras |-> <<>>] :
            a \in {<<>>, SampleAbstract}, d \in Docs}
    \cup {[details |-> NotFound, jats |-> NotFound, paras |-> <<>>]}

(***************************************************************************)
(* fetchAndParsePaper called on its own                                    *)
(***************************************************************************)
\* both fetches have answered; the markup, if any, is walked
ParseWalk ==
    /\ parser.phase = "called"
    /\ parser.details.found /\ parser.jats.found
    /\ parser' = [parser EXCEPT !.phase = "walked", !.st = MainWalk(parser.jats.doc)]
    /\ UNCHANGED <<streamVars, orch, hl, proxy, bar>>

ParseFloats ==
    /\ parser.phase = "walked"
    /\ parser' = [parser EXCEPT !.phase = "parsed", !.st = FloatsScan(parser.jats.doc, @)]
    /\ UNCHANGED <<streamVars, orch, hl, proxy, bar>>

\* the return of fetchAndParsePaper on the full-markup path
FetchReturn ==
    /\ parser.phase = "parsed"
    /\ parser' = [parser EXCEPT !.phase = "returned",
                    !.result = fetchAndParsePaper(UrlGood, parser.details,
                                    [found |-> TRUE, blocks |-> parser.st.blocks])]
    /\ UNCHANGED <<streamVars, orch, hl, proxy, bar>>

\* the return of fetchAndParsePaper when a fetch answered nothing
FetchFallback ==
    /\ parser.phase = "called"
    /\ ~(parser.details.found /\ parser.jats.found)
    /\ parser' = [parser EXCEPT !.phase = "returned",
                    !.result = fetchAndParsePaper(UrlGood, parser.details, NotFound)]
    /\ UNCHANGED <<streamVars, orch, hl, proxy, bar>>

InitParse ==
    /\ StreamIdle
    /\ orch = OrchIdle
    /\ hl = HlIdle
    /\ proxy = ProxyIdle
    /\ bar = BarIdle
    /\ parser \in {[phase |-> "called", details |-> in.details, jats |-> in.jats,
                    paras |-> in.paras, st |-> ParseStart, result |-> FetchNull(0)] :
                        in \in ParserInputs}

NextParse == ParseWalk \/ ParseFloats \/ FetchReturn \/ FetchFallback

SpecParse == InitParse /\ [][NextParse]_vars

(***************************************************************************)
(* The image proxy: GET /api/image?u=...                                   *)
(***************************************************************************)
BioRxivWord == <<"b", "i", "o", "r", "x", "i", "v", ".", "o", "r", "g">>

HighwireWord == <<"h", "i", "g", "h", "w", "i", "r", "e">>

HostBioRxiv == <<"w", "w", "w", ".", "b", "i", "o", "r", "x", "i", "v", ".", "o", "r", "g">>

HostHighwire == <<"c", "d", "n", ".", "h", "i", "g", "h", "w", "i", "r", "e", ".", "o", "r", "g">>

HostOther == <<"e", "v", "i", "l", ".", "e", "x", "a", "m", "p", "l", "e">>

HostLookalike == <<"b", "i", "o", "r", "x", "i", "v", ".", "o", "r", "g", ".", "e", "v", "i", "l", ".", "e", "x", "a", "m", "p", "l", "e">>

HostSuffixed == <<"n", "o", "t", "b", "i", "o", "r", "x", "i", "v", ".", "o", "r", "g">>

ProxyHosts == {HostBioRxiv, HostHighwire, HostOther, HostLookalike, HostSuffixed}

ProxyPaths == {<<"/", "a", ".", "p", "n", "g">>, <<"/", "b", "i", "o", "r", "x", "i", "v", ".", "o", "r", "g", "/", "a", ".", "p", "n", "g">>, <<"/", "h", "i", "g", "h", "w", "i", "r", "e", "/", "a", ".", "p", "n", "g">>}

ProxyQueries == {<<>>, <<"?", "r", "=", "b", "i", "o", "r", "x", "i", "v", ".", "o", "r", "g">>}

\* the values of the u parameter: absent, or scheme, host, path and query
ProxyUrls == {Scheme \o h \o p \o q : h \in ProxyHosts, p \in ProxyPaths, q \in ProxyQueries}

\* what the outbound fetch may do: answer with a status, or throw
UpstreamAnswers ==
    {[kind |-> "response", status |-> 200], [kind |-> "response", status |-> 404],
     [kind |-> "response", status |-> 503], [kind |-> "throws", status |-> 0]}

\* !(!imgUrl.includes('biorxiv.org') && !imgUrl.includes('highwire'))
PassesSourceCheck(imgUrl) == Includes(imgUrl, BioRxivWord) \/ Includes(imgUrl, HighwireWord)

\* GET, up to the outbound fetch
ProxyGet ==
    /\ proxy.phase = "called"
    /\ proxy' = IF proxy.imgUrl = Null \/ proxy.imgUrl = <<>>
                THEN [proxy EXCEPT !.phase = "answered", !.status = 400]
                ELSE IF ~PassesSourceCheck(proxy.imgUrl)
                THEN [proxy EXCEPT !.phase = "answered", !.status = 403]
                ELSE [proxy EXCEPT !.phase = "fetching", !.fetches = @ + 1]
    /\ UNCHANGED <<streamVars, orch, hl, parser, bar>>

\* GET, from the answer of the outbound fetch to the response
ProxyUpstream ==
    /\ proxy.phase = "fetching"
    /\ \E up \in UpstreamAnswers :
          proxy' = [proxy EXCEPT !.phase = "answered",
                        !.status = IF up.kind = "throws" THEN 500
                                   ELSE IF up.status \in 200..299 THEN 200
                                   ELSE up.status]
    /\ UNCHANGED <<streamVars, orch, hl, parser, bar>>

InitProxy ==
    /\ StreamIdle
    /\ orch = OrchIdle
    /\ hl = HlIdle
    /\ parser = ParserIdle
    /\ bar = BarIdle
    /\ proxy \in {[phase |-> "called", imgUrl |-> u, fetches |-> 0, status |-> 0] :
                    u \in ProxyUrls \cup {Null}}

NextProxy == ProxyGet \/ ProxyUpstream

SpecProxy == InitProxy /\ [][NextProxy]_vars

(***************************************************************************)
(* The rewriting stage of GET on its own: the stage opens with the         *)
(* '0 of total' event, the callback runs once per paragraph that           *)
(* rewriteAllBlocks reports, and the saving stage follows.  total ranges   *)
(* over documents of up to MaxTotal paragraphs.                            *)
(***************************************************************************)
MaxTotal == 70

BarStart(total) ==
    [phase |-> "rewriting", total |-> total, processedParagraphs |-> 0,
     events |-> sendProgress(<<>>, "rewriting", 25, <<0, total>>)]

\* onProgress(index, total) is called after a paragraph
BarOnProgress ==
    /\ bar.phase = "rewriting"
    /\ bar.processedParagraphs < bar.total
    /\ bar' = [bar EXCEPT
                !.processedParagraphs = @ + 1,
                !.events = onProgress(@, bar.processedParagraphs + 1, bar.total)]
    /\ UNCHANGED <<streamVars, orch, hl, parser, proxy>>

\* rewriteAllBlocks has returned: the saving stage is announced
BarSaving ==
    /\ bar.phase = "rewriting"
    /\ bar.processedParagraphs = bar.total
    /\ bar' = [bar EXCEPT !.phase = "saving",
                          !.events = sendProgress(@, "saving", 95, <<>>)]
    /\ UNCHANGED <<streamVars, orch, hl, parser, proxy>>

InitProgress ==
    /\ StreamIdle
    /\ orch = OrchIdle
    /\ hl = HlIdle
    /\ parser = ParserIdle
    /\ proxy = ProxyIdle
    /\ bar \in {BarStart(total) : total \in 1..MaxTotal}

NextProgress == BarOnProgress \/ BarSaving

SpecProgress == InitProgress /\ [][NextProgress]_vars

(***************************************************************************)
(* The term highlighter.  The literal pieces of the placeholder and of the *)
(* button markup are single elements of the text; the two pieces of the    *)
(* placeholder consist of word characters only and count as such.          *)
(***************************************************************************)
RegexSpecial == {".", "*", "+", "?", "^", "$", "{", "}", "(", ")", "|", "[", "]", "\\"}

\* str.replace(/[.*+?^${}()|[\]\\]/g, '\\$&')
RECURSIVE escapeRegex(_)
escapeRegex(str) ==
    IF str = <<>> THEN <<>>
    ELSE (IF Head(str) \in RegexSpecial THEN <<"\\", Head(str)>> ELSE <<Head(str)>>)
         \o escapeRegex(Tail(str))

\* the source of a pattern read as the regex engine reads it: an escaped
\* character is that character, a bare dot is any character
RECURSIVE PatternAtoms(_)
PatternAtoms(src) ==
    IF src = <<>> THEN <<>>
    ELSE IF Head(src) = "\\" /\ Len(src) >= 2
         THEN <<[any |-> FALSE, c |-> src[2]]>> \o PatternAtoms(SubSeq(src, 3, Len(src)))
    ELSE IF Head(src) = "."
         THEN <<[any |-> TRUE, c |-> "."]>> \o PatternAtoms(Tail(src))
    ELSE <<[any |-> FALSE, c |-> Head(src)]>> \o PatternAtoms(Tail(src))

PhOpen == "__TERM_PLACEHOLDER_"

PhClose == "__"

MarkOpen == "<button class=\"term-highlight\" data-term-id=\""

MarkMid == "\">"

MarkClose == "</button>"

\* \w
IsWordChar(c) == c \in LowerLetters \cup UpperLetters \cup Digits \cup {"_", PhOpen, PhClose}

IsWordAt(s, i) == i >= 1 /\ i <= Len(s) /\ IsWordChar(s[i])

\* the matcher, had the pattern no \b around the term
WordBoundary_Anywhere(s, i) == TRUE

\* \b between s[i-1] and s[i]
WordBoundary(s, i) == IsWordAt(s, i - 1) # IsWordAt(s, i)

\* one pattern character against one text character, with the i flag
AtomMatches(atom, c) ==
    IF atom.any THEN c # "\n" ELSE toLowerChar(atom.c) = toLowerChar(c)

\* new RegExp(`\\b(${escapeRegex(term)})\\b`, 'gi') matches s at position i
MatchAt(s, i, atoms) ==
    /\ i + Len(atoms) - 1 <= Len(s)
    /\ \A k \in 1..Len(atoms) : AtomMatches(atoms[k], s[i + k - 1])
    /\ WordBoundary(s, i)
    /\ WordBoundary(s, i + Len(atoms))

\* `__TERM_PLACEHOLDER_${placeholderCounter++}__`
Placeholder(n) == <<PhOpen>> \o Decimal(n) \o <<PhClose>>

\* `<button class="term-highlight" data-term-id="${termId}">${originalMatch}</button>`
buttonHtml(termId, originalMatch) ==
    <<MarkOpen>> \o termId \o <<MarkMid>> \o originalMatch \o <<MarkClose>>

\* result.replace(regex, match => placeholder) for one glossary entry: every
\* match, left to right, becomes a fresh placeholder that is recorded
ClaimMatches(result, entry, placeholders) ==
    LET atoms == PatternAtoms(escapeRegex(entry.term))
        RECURSIVE R(_, _)
        R(i, acc) ==
            IF i > Len(result) THEN acc
            ELSE IF Len(atoms) > 0 /\ MatchAt(result, i, atoms)
                 THEN LET placeholder == Placeholder(Len(acc.placeholders))
                      IN  R(i + Len(atoms),
                            [result |-> acc.result \o placeholder,
                             placeholders |-> Append(acc.placeholders,
                                [placeholder |-> placeholder, termId |-> entry.id,
                                 originalMatch |-> SubSeq(result, i, i + Len(atoms) - 1)])])
            ELSE R(i + 1, [acc EXCEPT !.result = Append(@, result[i])])
    IN  R(1, [result |-> <<>>, placeholders |-> placeholders])

\* the replacement string as String.prototype.replace reads it: $$ is a
\* dollar sign, $& the matched text and $' the text after the match; a pattern
\* that is a string has no groups, so $1 and $< stand for themselves.  ($ with
\* a backquote, the text before the match, is left out: no text of the model
\* holds a backquote.)
RECURSIVE GetSubstitution(_, _, _)
GetSubstitution(rep, matched, after) ==
    IF rep = <<>> THEN <<>>
    ELSE IF Head(rep) = "$" /\ Len(rep) >= 2 /\ rep[2] \in {"$", "&", "'"}
         THEN (CASE rep[2] = "$" -> <<"$">>
                 [] rep[2] = "&" -> matched
                 [] OTHER -> after)
              \o GetSubstitution(SubSeq(rep, 3, Len(rep)), matched, after)
    ELSE <<Head(rep)>> \o GetSubstitution(Tail(rep), matched, after)

\* result.replace(placeholder, buttonHtml): the first occurrence only
ReplaceFirst(s, lit, rep) ==
    LET at == {i \in 1..Len(s) : LitAt(s, i, lit)}
    IN  IF at = {} THEN s
        ELSE LET before == SubSeq(s, 1, Least(at) - 1)
                 after == SubSeq(s, Least(at) + Len(lit), Len(s))
             IN  before \o GetSubstitution(rep, lit, after) \o after

\* the comparator, had it been a.term.length - b.term.length
KeepsBefore_Ascending(a, b) == Len(a.term) - Len(b.term) <= 0

\* the comparator of the sort: b.term.length - a.term.length <= 0 keeps a before b
KeepsBefore(a, b) == Len(b.term) - Len(a.term) <= 0

\* entries.sort(comparator): a stable insertion of each entry in turn
RECURSIVE SortEntries(_)
SortEntries(entries) ==
    IF entries = <<>> THEN <<>>
    ELSE LET sorted == SortEntries(SubSeq(entries, 1, Len(entries) - 1))
             e == entries[Len(entries)]
             ahead == {k \in 0..Len(sorted) : \A j \in 1..k : KeepsBefore(sorted[j], e)}
             at == CHOOSE k \in ahead : \A j \in ahead : j <= k
         IN  SubSeq(sorted, 1, at) \o <<e>> \o SubSeq(sorted, at + 1, Len(sorted))

MaxTextLen == 3

MaxTerms == 2

TextAlphabet == {"a", "A", " "}

\* texts with a dollar sign: "a$$a" and "a$'a a"
DollarTexts == {<<"a", "$", "$", "a">>, <<"a", "$", "'", "a", " ", "a">>}

Texts == UNION {[1..n -> TextAlphabet] : n \in 0..MaxTextLen} \cup DollarTexts

SampleTerms ==
    {<<"a">>, <<"A">>, <<"a", "a">>, <<"a", " ">>, <<"a", " ", "a">>, <<"A", " ", "a">>,
     <<"$", "$">>, <<"$", "'">>}

\* a glossary as Object.entries gives it: ids t0, t1, ... in insertion order
Glossaries ==
    UNION {{[k \in 1..n |-> [id |-> TermId(k - 1), term |-> terms[k]]] :
                terms \in [1..n -> SampleTerms]} : n \in 0..MaxTerms}

\* highlightTerms, from the call to the early return or the sort
HlEnter ==
    /\ hl.phase = "called"
    /\ hl' = IF hl.text = <<>> \/ Len(hl.terms) = 0
             THEN [hl EXCEPT !.phase = "returned", !.out = hl.text]
             ELSE [hl EXCEPT !.phase = "matching", !.sortedEntries = SortEntries(hl.terms),
                             !.result = hl.text]
    /\ UNCHANGED <<streamVars, orch, parser, proxy, bar>>

\* one round of the first loop: the matcher of the next sorted entry
HlMatchTerm ==
    /\ hl.phase = "matching"
    /\ hl.k <= Len(hl.sortedEntries)
    /\ LET claimed == ClaimMatches(hl.result, hl.sortedEntries[hl.k], hl.placeholders)
       IN  hl' = [hl EXCEPT !.result = claimed.result, !.placeholders = claimed.placeholders,
                            !.k = @ + 1]
    /\ UNCHANGED <<streamVars, orch, parser, proxy, bar>>

\* one round of the second loop: the next placeholder becomes a button
HlResolve ==
    /\ hl.phase \in {"matching", "resolving"}
    /\ hl.k > Len(hl.sortedEntries)
    /\ hl.j <= Len(hl.placeholders)
    /\ LET p == hl.placeholders[hl.j]
       IN  hl' = [hl EXCEPT !.phase = "resolving",
                            !.result = ReplaceFirst(@, p.placeholder,
                                          buttonHtml(p.termId, p.originalMatch)),
                            !.j = @ + 1]
    /\ UNCHANGED <<streamVars, orch, parser, proxy, bar>>

HlReturn ==
    /\ hl.phase \in {"matching", "resolving"}
    /\ hl.k > Len(hl.sortedEntries)
    /\ hl.j > Len(hl.placeholders)
    /\ hl' = [hl EXCEPT !.phase = "returned", !.out = hl.result]
    /\ UNCHANGED <<streamVars, orch, parser, proxy, bar>>

InitHighlight ==
    /\ StreamIdle
    /\ orch = OrchIdle
    /\ parser = ParserIdle
    /\ proxy = ProxyIdle
    /\ bar = BarIdle
    /\ hl \in {[phase |-> "called", text |-> text, terms |-> terms, sortedEntries |-> <<>>,
                 result |-> <<>>, placeholders |-> <<>>, k |-> 1, j |-> 1, out |-> <<>>] :
                    text \in Texts, terms \in Glossaries}

NextHighlight == HlEnter \/ HlMatchTerm \/ HlResolve \/ HlReturn

SpecHighlight == InitHighlight /\ [][NextHighlight]_vars

(***************************************************************************)
(* Claims about rewriteAllBlocks (checked under SpecRewrite)               *)
(***************************************************************************)
MalformedBody(body) ==
    \/ ~body.plain.def
    \/ ~body.terms.def
    \/ \E k \in 1..Len(body.terms.v) : ~body.terms.v[k].term.def \/ ~body.terms.v[k].simple.def

RewriteFailed(resp) == resp.kind \in FailureKinds \/ MalformedBody(resp.body)

\* C4: whatever way the rewrite capability fails for a paragraph (network
\* error, empty content, invalid JSON, JSON of the wrong shape), the call of
\* rewriteAllBlocks does not throw, the paragraph's PlainBlock is the stripped
\* original with no terms, and the glossary is as it was before the paragraph.
C4_FallbackOnEveryFailure ==
    /\ orch.st.status # "thrown"
    /\ \A k \in 1..Len(orch.log) :
          LET e == orch.log[k]
              block == orch.st.blocks[e.i]
          IN  RewriteFailed(e.resp) =>
                /\ ~e.thrown
                /\ e.i <= Len(orch.st.plainBlocks)
                /\ orch.st.plainBlocks[e.i] =
                      PlainPara(block.id, Def(stripHtml(block.text_html)), <<>>)
                /\ e.after = e.before

SameTerm(a, b) == a.def /\ b.def /\ toLowerCase(a.v) = toLowerCase(b.v)

IsPrefix(a, b) == Len(a) <= Len(b) /\ SubSeq(b, 1, Len(a)) = a

\* C5: no two glossary entries have terms equal up to case, and a candidate equal
\* up to case to an entry already there adds nothing, leaves the entry as it was
\* and puts that entry's id at the candidate's place in the paragraph's term list.
C5_GlossaryDedup ==
    /\ \A a, b \in 1..Len(orch.st.allTerms) :
          SameTerm(orch.st.allTerms[a].term, orch.st.allTerms[b].term) => a = b
    /\ \A k \in 1..Len(orch.log) :
          LET e == orch.log[k]
          IN  /\ IsPrefix(e.before, e.after)
              /\ IsPrefix(e.after, orch.st.allTerms)
              /\ (~e.thrown /\ e.resp.kind = "json") =>
                    \A c \in 1..Len(e.resp.body.terms.v) :
                    \A a \in 1..Len(e.before) :
                        SameTerm(e.before[a].term, e.resp.body.terms.v[c].term) =>
                            /\ orch.st.plainBlocks[e.i].term_ids[c] = e.before[a].id
                            /\ Cardinality({b \in 1..Len(e.after) :
                                    SameTerm(e.after[b].term, e.before[a].term)}) = 1

\* a second paragraph proposed "ab" when the glossary already held "Ab"
C5_Witness ==
    /\ orch.st.status = "returned"
    /\ \E k \in 1..Len(orch.log) :
          LET e == orch.log[k]
          IN  /\ ~e.thrown /\ e.resp.kind = "json" /\ e.resp.body.terms.def
              /\ \E c \in 1..Len(e.resp.body.terms.v), a \in 1..Len(e.before) :
                    /\ SameTerm(e.before[a].term, e.resp.body.terms.v[c].term)
                    /\ e.before[a].term # e.resp.body.terms.v[c].term

\* C6: the PlainBlocks produced so far mirror the input blocks position by
\* position (same kind; heading level and text, figure id, paragraph id kept),
\* and the sequence returned has the length of the input.
C6_SameShape ==
    /\ Len(orch.st.plainBlocks) <= Len(orch.st.blocks)
    /\ orch.st.status = "returned" => Len(orch.st.plainBlocks) = Len(orch.st.blocks)
    /\ \A j \in 1..Len(orch.st.plainBlocks) :
          LET b == orch.st.blocks[j]
              pb == orch.st.plainBlocks[j]
          IN  /\ pb.kind = b.kind
              /\ b.kind = "heading" => pb = [kind |-> "heading", level |-> b.level, text |-> b.text]
              /\ b.kind = "figure" => pb = [kind |-> "figure", id |-> b.id]
              /\ b.kind = "para" => pb.id = b.id

\* a returned call whose input held a heading, a paragraph and a figure
C6_Witness ==
    /\ orch.st.status = "returned"
    /\ \A kind \in BlockKinds : \E j \in 1..Len(orch.st.blocks) : orch.st.blocks[j].kind = kind

(***************************************************************************)
(* Claims about load and the processing stream (checked under Spec)        *)
(***************************************************************************)
Terminals(ev) == {k \in 1..Len(ev) : ev[k].type = "terminal"}

ProgressAt(ev) == {k \in 1..Len(ev) : ev[k].type = "progress"}

EndsReady(ev) == Len(ev) > 0 /\ ev[Len(ev)].type = "terminal" /\ ev[Len(ev)].status = "ready"

\* C1: a processing stream enqueues at most one terminal event, nothing after
\* it, the stream is closed exactly when the terminal event is enqueued, and
\* every stream that has ended, however it ended, has enqueued one.
C1_OneTerminalEvent ==
    \A r \in Runs :
        /\ Cardinality(Terminals(events[r])) <= 1
        /\ Terminals(events[r]) \subseteq {Len(events[r])}
        /\ closed[r] <=> Terminals(events[r]) # {}
        /\ (req[r].streamed /\ pc[r] = "done") => closed[r]

\* a stream ended by the TypeError of a rewrite, after a paragraph was reported
C1_Witness ==
    \E r \in Runs :
        /\ closed[r]
        /\ events[r][Len(events[r])] = ErrorEvent(TypeErrorMessage)
        /\ \E k \in ProgressAt(events[r]) :
              events[r][k].stage = "rewriting" /\ events[r][k].sub = <<1, 2>>

\* C2: a request for an identifier that the cache holds when the request starts,
\* without bypass, makes no metadata fetch, no raw-content fetch, no parse and
\* no rewrite call.
C2_CacheHitSkipsPipeline ==
    \A r \in Runs :
        (req[r].entry # "none" /\ req[r].hitAtStart /\ ~req[r].refresh) =>
            /\ calls[r].meta = 0
            /\ calls[r].raw = 0
            /\ calls[r].parsed = 0
            /\ calls[r].rewrite = 0

\* C3: a page request with refresh=true for an identifier the cache holds, once
\* it has delivered a paper, has made one rewrite call per paragraph and has
\* written the paper it delivers to the cache.
C3_RefreshRecomputes ==
    \A r \in Runs :
        (/\ req[r].entry = "page" /\ req[r].refresh /\ req[r].hitAtStart
         /\ pc[r] = "done" /\ EndsReady(events[r])) =>
            /\ calls[r].cacheWrites = 1
            /\ calls[r].rewrite = Len(Paragraphs(local[r].paperData.blocks))
            /\ events[r][Len(events[r])].paper = local[r].paper

StageRank(stage) ==
    CASE stage = "fetching" -> 1 [] stage = "parsing" -> 2 [] stage = "rewriting" -> 3
      [] stage = "saving" -> 4 [] stage = "complete" -> 5

StageRange(stage) ==
    CASE stage = "fetching" -> 0..15 [] stage = "parsing" -> 15..25
      [] stage = "rewriting" -> 25..95 [] stage = "saving" -> 95..100
      [] stage = "complete" -> {100}

\* C7: along a stream the progress percentages never decrease, the stages come
\* in the order fetching, parsing, rewriting, saving, complete, and every
\* percentage lies in the range of its stage.
C7_ProgressMonotone ==
    \A r \in Runs :
        /\ \A k \in ProgressAt(events[r]) :
              /\ events[r][k].stage \in {"fetching", "parsing", "rewriting", "saving", "complete"}
              /\ events[r][k].progress \in StageRange(events[r][k].stage)
        /\ \A j, k \in ProgressAt(events[r]) :
              j < k => /\ events[r][j].progress <= events[r][k].progress
                       /\ StageRank(events[r][j].stage) <= StageRank(events[r][k].stage)

\* a stream that went through all five stages and reported two paragraphs
C7_Witness ==
    \E r \in Runs :
        /\ EndsReady(events[r])
        /\ \A stage \in {"fetching", "parsing", "rewriting", "saving", "complete"} :
              \E k \in ProgressAt(events[r]) : events[r][k].stage = stage
        /\ \E k \in ProgressAt(events[r]) : events[r][k].sub = <<2, 2>>

\* C8: a request whose reference yields no identifier makes no network call and
\* is answered as an invalid reference, never as an unavailable document.
C8_NoIdentifierIsInvalid ==
    \A r \in Runs :
        (req[r].entry # "none" /\ extractDoiFromUrl(req[r].url) = Null) =>
            /\ calls[r].meta = 0 /\ calls[r].raw = 0 /\ calls[r].rewrite = 0
            /\ outcome[r] # "pending"
            /\ \A k \in Terminals(events[r]) : events[r][k] # ErrorEvent(MsgFetch)
            /\ pc[r] = "done" => outcome[r] = "http400"

(***************************************************************************)
(* Claims about highlightTerms (checked under SpecHighlight)               *)
(***************************************************************************)
CountOf(s, c, upto) == Cardinality({i \in 1..upto : s[i] = c})

Occurrences(s, lit) == {i \in 1..Len(s) : LitAt(s, i, lit)}

\* the number of buttons open after the first n elements of s
OpenButtons(s, n) == CountOf(s, MarkOpen, n) - CountOf(s, MarkClose, n)

HasMarkup(s) == \E i \in 1..Len(s) : s[i] \in {MarkOpen, MarkMid, MarkClose}

EntryRank(sorted, id) == CHOOSE k \in 1..Len(sorted) : sorted[k].id = id

CellWallCase ==
    /\ hl.text = <<"a", " ", "a">>
    /\ hl.terms = <<[id |-> TermId(0), term |-> <<"a">>],
                    [id |-> TermId(1), term |-> <<"a", " ", "a">>]>>

\* C9: the buttons of the output never overlap or nest; the entries are tried
\* longest first; a placeholder, once put, stays whole and single until it is
\* resolved, so no later entry matches in a claimed span; no matcher runs over
\* text that holds button markup; and with the entries {a, a a} the text "a a"
\* becomes one button around "a a".
C9_DisjointMarkers ==
    /\ \A n \in 0..Len(hl.result) : OpenButtons(hl.result, n) \in {0, 1}
    /\ OpenButtons(hl.out, Len(hl.out)) = 0
    /\ \A n \in 0..Len(hl.out) : OpenButtons(hl.out, n) \in {0, 1}
    /\ \A a, b \in 1..Len(hl.sortedEntries) :
          a < b => Len(hl.sortedEntries[a].term) >= Len(hl.sortedEntries[b].term)
    /\ \A a, b \in 1..Len(hl.placeholders) :
          a < b => EntryRank(hl.sortedEntries, hl.placeholders[a].termId)
                     <= EntryRank(hl.sortedEntries, hl.placeholders[b].termId)
    /\ hl.phase = "matching" =>
          /\ ~HasMarkup(hl.result)
          /\ \A a \in 1..Len(hl.placeholders) :
                Cardinality(Occurrences(hl.result, hl.placeholders[a].placeholder)) = 1
    /\ (CellWallCase /\ hl.phase = "returned") =>
          hl.out = buttonHtml(TermId(1), <<"a", " ", "a">>)

\* the text "a a" highlighted with the entries {t0: a, t1: a a}
C9_Witness == CellWallCase /\ hl.phase = "returned" /\ HasMarkup(hl.out)

WordCharSet == LowerLetters \cup UpperLetters \cup Digits \cup {"_"}

InWord(text, i) == i \in 1..Len(text) /\ text[i] \in WordCharSet

\* term stands in text at position i as a whole word, up to case
StandsAt(term, text, i) ==
    /\ i + Len(term) - 1 <= Len(text)
    /\ toLowerCase(SubSeq(text, i, i + Len(term) - 1)) = toLowerCase(term)
    /\ InWord(text, i - 1) # InWord(text, i)
    /\ InWord(text, i + Len(term) - 1) # InWord(text, i + Len(term))

OccursAsWord(term, text) == \E i \in 1..Len(text) : StandsAt(term, text, i)

\* C10: highlightTerms returns its input unchanged when the text is empty, when
\* the glossary is empty, or when no glossary term stands in the text as a
\* whole word.
C10_UnchangedWithoutMatch ==
    (/\ hl.phase = "returned"
     /\ \/ hl.text = <<>>
        \/ hl.terms = <<>>
        \/ \A e \in 1..Len(hl.terms) : ~OccursAsWord(hl.terms[e].term, hl.text))
    => hl.out = hl.text

\* a glossary term is part of a word of the text, but nowhere a word of its own
C10_Witness ==
    /\ hl.phase = "returned"
    /\ hl.text # <<>>
    /\ hl.terms # <<>>
    /\ \A e \in 1..Len(hl.terms) : ~OccursAsWord(hl.terms[e].term, hl.text)
    /\ \E e \in 1..Len(hl.terms) :
          \E i \in 1..Len(hl.text) :
              /\ i + Len(hl.terms[e].term) - 1 <= Len(hl.text)
              /\ toLowerCase(SubSeq(hl.text, i, i + Len(hl.terms[e].term) - 1))
                    = toLowerCase(hl.terms[e].term)

(***************************************************************************)
(* Claims about fetchAndParsePaper and the structural parser               *)
(***************************************************************************)
FallbackCase ==
    parser.phase = "returned" /\ parser.details.found /\ ~parser.jats.found

FullMarkupCase ==
    parser.phase = "returned" /\ parser.details.found /\ parser.jats.found

\* the block sequence the fallback is to give for the paragraphs ps
ExpectedFallback(ps) ==
    <<[kind |-> "heading", level |-> 2, text |-> <<"A", "b", "s", "t", "r", "a", "c", "t">>]>>
    \o [i \in 1..Len(ps) |->
            [kind |-> "para", id |-> <<"p">> \o Decimal(i - 1), text_html |-> Trim(ps[i])]]
    \o <<[kind |-> "heading", level |-> 2, text |-> <<"N", "o", "t", "e">>],
         [kind |-> "para", id |-> <<"n", "o", "t", "e">>, text_html |-> NoteText]>>

\* C11: when the metadata fetch succeeds and the raw-content fetch answers
\* nothing, fetchAndParsePaper returns, for an abstract of n non-empty
\* paragraphs separated by blank lines, exactly Heading(2, 'Abstract'), the
\* paragraphs p0 .. p(n-1) in order, Heading(2, 'Note'), Paragraph('note').
C11_FallbackBlocks ==
    FallbackCase =>
        /\ parser.result.status = "ok"
        /\ parser.result.data.blocks = ExpectedFallback(parser.paras)
        /\ Len(parser.result.data.blocks) >= 3

C11_Witness ==
    /\ FallbackCase
    /\ Len(parser.paras) = 2
    /\ Len(parser.result.data.blocks) = 5
    /\ parser.result.data.blocks[3].id = <<"p", "1">>

\* C12: whenever the markup is available and the metadata has a non-empty
\* abstract, the blocks fetchAndParsePaper returns begin with the heading
\* 'Abstract' and a paragraph holding the abstract, whatever the parse gave.
C12_AbstractAlwaysFirst ==
    (FullMarkupCase /\ parser.details.abstract # <<>>) =>
        /\ Len(parser.result.data.blocks) >= 2
        /\ parser.result.data.blocks[1] =
              [kind |-> "heading", level |-> 2, text |-> <<"A", "b", "s", "t", "r", "a", "c", "t">>]
        /\ parser.result.data.blocks[2].kind = "para"
        /\ parser.result.data.blocks[2].text_html = parser.details.abstract


\* the positions of a block sequence that hold a block of the given kind
OfKind(blocks, kind) == {k \in 1..Len(blocks) : blocks[k].kind = kind}

UniqueIds(blocks, kind) ==
    \A i, j \in OfKind(blocks, kind) : i # j => blocks[i].id # blocks[j].id

\* C16: in every block sequence that fetchAndParsePaper returns (full markup
\* with or without abstract, or the abstract-only fallback) no two paragraphs
\* share an id and no two figures share an id.
C16_UniqueBlockIds ==
    (parser.phase = "returned" /\ parser.result.status = "ok") =>
        /\ UniqueIds(parser.result.data.blocks, "para")
        /\ UniqueIds(parser.result.data.blocks, "figure")

C16_Witness ==
    /\ FullMarkupCase
    /\ parser.details.abstract # <<>>
    /\ Cardinality(OfKind(parser.result.data.blocks, "para")) >= 3
    /\ Cardinality(OfKind(parser.result.data.blocks, "figure")) >= 2

Parsed == parser.phase \in {"parsed", "returned"} /\ parser.details.found /\ parser.jats.found

\* C17: each figure element of the source yields at most one Figure block;
\* the scan after the main walk adds a figure only if that source figure
\* was not captured during the walk.
C17_OneBlockPerFigure ==
    Parsed =>
        \A i, j \in OfKind(parser.st.blocks, "figure") :
            i # j => parser.st.src[i] # parser.st.src[j]

\* document order of two places: a is an ancestor of b, or a branches off to
\* the left of b
ComesBefore(a, b) ==
    \/ Len(a) < Len(b) /\ SubSeq(b, 1, Len(a)) = a
    \/ \E k \in 1..Len(a) :
          /\ k <= Len(b)
          /\ SubSeq(a, 1, k - 1) = SubSeq(b, 1, k - 1)
          /\ a[k] < b[k]

\* the first block made from the element at a place
FirstBlockOf(at) == Least({k \in 1..Len(parser.st.blocks) : parser.st.src[k] = at})

\* C18: the blocks of parseJatsXmlToBlocks are in source document order: of
\* two source elements that both yield a block, the (first) block of the
\* earlier element comes before the (first) block of the later one.
C18_DocumentOrder ==
    Parsed =>
        \A i, j \in 1..Len(parser.st.blocks) :
            ComesBefore(parser.st.src[i], parser.st.src[j]) =>
                FirstBlockOf(parser.st.src[i]) < FirstBlockOf(parser.st.src[j])

\* the sections below a sequence of elements, each with its place
RECURSIVE SectionsBelow(_, _)
SectionsBelow(els, path) ==
    UNION {IF els[k].tag = "sec"
           THEN {[el |-> els[k], at |-> Append(path, k)]}
                \cup SectionsBelow(els[k].children, Append(path, k))
           ELSE {} : k \in 1..Len(els)}

\* a title that is all white space counts as empty
EmptyTitle(title) == \A k \in 1..Len(title) : title[k] \in WhiteSpace

ReferencesTitle(title) ==
    \E k \in 1..Len(title) :
        /\ k + 8 <= Len(title)
        /\ toLowerCase(SubSeq(title, k, k + 8)) = <<"r", "e", "f", "e", "r", "e", "n", "c", "e">>

HeadingsFrom(at) ==
    {k \in OfKind(parser.st.blocks, "heading") : parser.st.src[k] = at}

HostOf(u) ==
    LET start == Len(Scheme) + 1
        stops == {i \in start..Len(u) : u[i] \in {"/", "?", "#"}}
        end == IF stops = {} THEN Len(u) ELSE Least(stops) - 1
    IN  SubSeq(u, start, end)

EndsWith(s, suffix) ==
    Len(suffix) <= Len(s) /\ SubSeq(s, Len(s) - Len(suffix) + 1, Len(s)) = suffix

\* a host is on the allow list when it is a listed domain or a subdomain of one
OnAllowList(host) ==
    \E domain \in {<<"b", "i", "o", "r", "x", "i", "v", ".", "o", "r", "g">>,
                   <<"h", "i", "g", "h", "w", "i", "r", "e", ".", "o", "r", "g">>} :
        host = domain \/ EndsWith(host, <<".">> \o domain)

\* C13: the image proxy fetches only a URL whose host is on the allow list; a
\* URL whose host is not on it (even if a listed name occurs in its path or
\* query) is rejected without a fetch.
C13_FetchOnlyAllowedHosts ==
    (proxy.phase # "idle" /\ proxy.imgUrl # Null /\ ~OnAllowList(HostOf(proxy.imgUrl))) =>
        /\ proxy.fetches = 0
        /\ proxy.phase = "answered" => proxy.status = 403

(***************************************************************************)
(* Claims about the two early stops, concurrent runs and unexpected errors *)
(***************************************************************************)
\* what a finished request told its caller: the status that load returned,
\* or the message of the stream's terminal error event
Reported(r) ==
    IF Len(events[r]) > 0 /\ events[r][Len(events[r])].type = "terminal"
    THEN IF events[r][Len(events[r])].status = "error"
         THEN events[r][Len(events[r])].message
         ELSE "ready"
    ELSE outcome[r]

MetadataMissing(r) == local[r].fetch = "null" /\ calls[r].meta >= 1

NoBlocksParsed(r) == local[r].fetch = "ok" /\ Len(local[r].paperData.blocks) = 0

\* C14: a run whose metadata fetch returns nothing and a run whose parse
\* yields no block both stop with no rewrite call and no cache write, the
\* first reporting 'could not fetch', the second 'could not parse' (runs
\* ended by an exception of the database client are left aside).
C14_TwoDistinctStops ==
    \A r \in Runs :
        (pc[r] = "done" /\ Reported(r) \notin {"http500_unexpected", DbErrorMessage}) =>
            /\ MetadataMissing(r) =>
                  /\ calls[r].rewrite = 0 /\ calls[r].cacheWrites = 0
                  /\ Reported(r) \in {MsgFetch, "pending"}
            /\ NoBlocksParsed(r) =>
                  /\ calls[r].rewrite = 0 /\ calls[r].cacheWrites = 0
                  /\ Reported(r) \in {MsgParse, "http500_parse"}

\* run r is at the step that sends its upsert and the database applies it
Writes(r) == pc[r] = "get_save" /\ pc'[r] = "get_saved"

\* the Paper a run computes from what it fetched and what its rewrites gave
OwnPaper(r) ==
    [id |-> generatePaperId(local[r].paperData.doi), sourceUrl |-> req[r].url,
     title |-> local[r].paperData.title, blocks |-> local[r].paperData.blocks,
     plain |-> [blocks |-> rw[r].plainBlocks, terms |-> rw[r].allTerms]]

HasWritten(r) == calls[r].cacheWrites >= 1

\* C15: for two runs for the same identifier, every write replaces the cached
\* Paper by the complete Paper of the writing run, whatever was there (the last
\* writer wins); the entry never changes otherwise, always holds the whole
\* Paper of one run, and that Paper is computed from the run's own fetch and
\* rewrites, not from the cache.
C15_LastWriterWins ==
    /\ [](\A id \in CacheIds :
            cache[id].present =>
                \E r \in Runs :
                    /\ HasWritten(r)
                    /\ cache[id].data = OwnPaper(r)
                    /\ OwnPaper(r).id = id
                    /\ Len(cache[id].data.plain.blocks) = Len(cache[id].data.blocks))
    /\ [][/\ \A r \in Runs :
                Writes(r) => /\ cache'[OwnPaper(r).id].present
                             /\ cache'[OwnPaper(r).id].data = OwnPaper(r)
          /\ \A id \in CacheIds :
                cache'[id] # cache[id] => \E r \in Runs : Writes(r) /\ OwnPaper(r).id = id]_vars

C15_Witness ==
    /\ \A r \in Runs : pc[r] = "done" /\ HasWritten(r) /\ ~req[r].hitAtStart
    /\ OwnPaper(1).id = OwnPaper(2).id
    /\ OwnPaper(1).plain # OwnPaper(2).plain
    /\ OwnPaper(1).sourceUrl # OwnPaper(2).sourceUrl
    /\ cache[OwnPaper(1).id].data = OwnPaper(2)

\* the messages the stream words itself, whatever went wrong
FixedMessages == {MsgFetch, MsgParse, GenericMessage}

\* C20: when an exception is raised at any step of a stream run, the terminal
\* event is an error event with a generic message that does not depend on the
\* exception's own message, and the stream closes.
C20_GenericErrorMessage ==
    \A r \in Runs :
        \A k \in Terminals(events[r]) :
            events[r][k].status = "error" =>
                /\ events[r][k].message \in FixedMessages
                /\ closed[r]

(***************************************************************************)
(* Claims about the calls of the rewrite capability and the glossary       *)
(* during one call of rewriteAllBlocks (checked under SpecRewrite)         *)
(***************************************************************************)
\* the positions of the blocks rewriteParagraph was called for, in call order:
\* the calls that have answered, then the one still awaited
CallsIssued ==
    [k \in 1..Len(orch.log) |-> orch.log[k].i]
    \o (IF orch.st.status = "awaiting" THEN <<orch.st.i>> ELSE <<>>)

ParaPositions(blocks) == {j \in 1..Len(blocks) : blocks[j].kind = "para"}

\* C21: within one call of rewriteAllBlocks the rewrite capability is called
\* for paragraph blocks only, in document order and at most once per block
\* (a failed call is not repeated), every paragraph the loop has passed was
\* called exactly once, a returned run has called every paragraph exactly
\* once, and at most one call is in flight: a call is issued only after the
\* one before it has answered.
C21_OneCallPerParagraph ==
    /\ orch.st.inFlight \in {0, 1}
    /\ orch.st.inFlight = 1 <=> orch.st.status = "awaiting"
    /\ Len(CallsIssued) = Len(orch.log) + orch.st.inFlight
    /\ \A k \in 1..Len(CallsIssued) : CallsIssued[k] \in ParaPositions(orch.st.blocks)
    /\ \A a, b \in 1..Len(CallsIssued) : a < b => CallsIssued[a] < CallsIssued[b]
    /\ \A j \in ParaPositions(orch.st.blocks) :
          j < orch.st.i => \E k \in 1..Len(CallsIssued) : CallsIssued[k] = j
    /\ orch.st.status = "returned" =>
          {CallsIssued[k] : k \in 1..Len(CallsIssued)} = ParaPositions(orch.st.blocks)

\* a returned run over a heading or figure and two paragraphs, whose first
\* call failed
C21_Witness ==
    /\ orch.st.status = "returned"
    /\ Len(orch.log) = 2
    /\ orch.log[1].resp.kind \in FailureKinds
    /\ \E j \in 1..Len(orch.st.blocks) : orch.st.blocks[j].kind # "para"

GlossaryKeys(allTerms) == {allTerms[j].id : j \in 1..Len(allTerms)}

\* the n-th key minted, counted from 0
SequentialKey(n) == <<"t">> \o Decimal(n)

KeysAreSequential ==
    /\ Len(orch.st.allTerms) = orch.st.termCounter
    /\ \A j \in 1..Len(orch.st.allTerms) : orch.st.allTerms[j].id = SequentialKey(j - 1)

TermIdsAreKeys ==
    \A j \in 1..Len(orch.st.plainBlocks) :
        orch.st.plainBlocks[j].kind = "para" =>
            \A c \in 1..Len(orch.st.plainBlocks[j].term_ids) :
                orch.st.plainBlocks[j].term_ids[c] \in GlossaryKeys(orch.st.allTerms)

EntriesKept == IsPrefix(orch.st.allTerms, orch.st.allTerms')

\* C23: at every point of a rewriteAllBlocks run the glossary keys are
\* exactly t0..t(n-1) for the n entries minted so far, every ID in a
\* paragraph's term list is a key of the glossary (so of the one returned),
\* and no step removes or changes an entry that is in the glossary.
C23_StableSequentialIds ==
    /\ [](KeysAreSequential /\ TermIdsAreKeys)
    /\ [][EntriesKept]_vars

\* a returned run whose second paragraph found a glossary that was not empty,
\* reused one of its keys and minted a new one
C23_Witness ==
    /\ orch.st.status = "returned"
    /\ Len(orch.log) = 2
    /\ orch.log[2].before # <<>>
    /\ orch.log[2].after # orch.log[2].before
    /\ \E j \in 1..Len(orch.st.plainBlocks) :
          /\ orch.st.plainBlocks[j].kind = "para"
          /\ orch.log[2].i = j
          /\ \E c \in 1..Len(orch.st.plainBlocks[j].term_ids) :
                orch.st.plainBlocks[j].term_ids[c] \in GlossaryKeys(orch.log[2].before)

(***************************************************************************)
(* Claims about the percentages of the rewriting stage (checked under      *)
(* SpecProgress)                                                           *)
(***************************************************************************)
\* C22: for a document of total >= 1 paragraphs the rewriting stage emits,
\* after its opening event, one event per rewritten paragraph, the k-th of
\* them with sub-progress 'k of total' and percentage
\* 25 + floor(70 * k / total); the percentage lies in 25..95 and is 95
\* exactly when k = total; a stage that has ended has emitted all of them.
C22_RewritingPercentages ==
    LET rewriting == SelectSeq(bar.events, LAMBDA e : e.stage = "rewriting")
    IN  bar.phase # "idle" =>
          /\ Len(rewriting) = bar.processedParagraphs + 1
          /\ bar.phase = "saving" => bar.processedParagraphs = bar.total
          /\ \A k \in 1..bar.processedParagraphs :
                LET e == rewriting[k + 1]
                IN  /\ e.sub = <<k, bar.total>>
                    /\ e.progress = 25 + ((70 * k) \div bar.total)
                    /\ e.progress \in 25..95
                    /\ e.progress = 95 <=> k = bar.total

(***************************************************************************)
(* Repeated requests: two direct requests of the processing stream that    *)
(* may overlap, and one more that is made for the reference of a run that  *)
(* has already ended with 'ready'.                                         *)
(***************************************************************************)
\* the request that comes after the runs
Later == Cardinality(Runs) + 1

Requests == Runs \cup {Later}

SameReference(u, v) ==
    extractDoiFromUrl(u) # Null /\ extractDoiFromUrl(u) = extractDoiFromUrl(v)

\* a direct request made after some run for the same reference ended
\* with 'ready'; after records those runs
RepeatRequest(r) ==
    /\ r = Later
    /\ pc[r] = "idle"
    /\ \E u \in SampleUrls :
          LET after == {q \in Runs : EndsReady(events[q]) /\ SameReference(req[q].url, u)}
          IN  /\ after # {}
              /\ req' = [req EXCEPT ![r] = [entry |-> "api", url |-> u, refresh |-> FALSE,
                                            hitAtStart |-> HitFor(cache, u),
                                            streamed |-> isBioRxivUrl(u),
                                            after |-> after]]
              /\ GetStart(r, u)
    /\ UNCHANGED <<cache, local, rw, closed, calls, orch, hl, parser, proxy, bar>>

InitRepeat ==
    /\ cache = [id \in CacheIds |-> NoRow]
    /\ pc = [r \in Requests |-> "idle"]
    /\ req = [r \in Requests |-> ReqIdle]
    /\ local = [r \in Requests |-> LocalIdle]
    /\ rw = [r \in Requests |-> RwIdle]
    /\ events = [r \in Requests |-> <<>>]
    /\ closed = [r \in Requests |-> FALSE]
    /\ outcome = [r \in Requests |-> "none"]
    /\ calls = [r \in Requests |-> CallsIdle]
    /\ orch = OrchIdle
    /\ hl = HlIdle
    /\ parser = ParserIdle
    /\ proxy = ProxyIdle
    /\ bar = BarIdle

NextRepeat ==
    \E r \in Requests :
        \/ (r \in Runs /\ ApiRequest(r))
        \/ RepeatRequest(r)
        \/ GetCacheCheck(r)
        \/ GetFetched(r)
        \/ GetPassThrough(r)
        \/ GetRewriteCall(r)
        \/ GetRewriteReturn(r)
        \/ GetSaving(r)
        \/ GetCacheWrite(r)
        \/ GetComplete(r)

SpecRepeat == InitRepeat /\ [][NextRepeat]_vars

(***************************************************************************)
(* Claims about the cache write and about requests that follow a finished  *)
(* run (checked under Spec)                                                *)
(***************************************************************************)
\* the run went past the cache check into the pipeline
TookPipeline(r) ==
    \E k \in ProgressAt(events[r]) : events[r][k].stage = "fetching"

EndsError(ev) == Len(ev) > 0 /\ ev[Len(ev)].type = "terminal" /\ ev[Len(ev)].status = "error"

AnnouncedDone(ev) ==
    \/ EndsReady(ev)
    \/ \E k \in ProgressAt(ev) : ev[k].stage = "complete"

\* the Paper has every paragraph rewritten: one plain block per block
CompletePaper(paper) == Len(paper.plain.blocks) = Len(paper.blocks)

WriteInOrder(r) ==
    /\ calls[r].cacheWrites <= 1
    /\ HasWritten(r) =>
          /\ rw[r].status = "returned"
          /\ rw[r].processedParagraphs = rw[r].totalParagraphs
          /\ local[r].processedParagraphs = Len(Paragraphs(local[r].paperData.blocks))
          /\ CompletePaper(local[r].paper)
    /\ EndsError(events[r]) => ~HasWritten(r)
    /\ (TookPipeline(r) /\ AnnouncedDone(events[r])) => HasWritten(r)

\* the cache changes only in the write of a run in its saving step, and what
\* is put there is that run's complete Paper
OnlySavingWrites ==
    cache' # cache =>
        \E r \in Runs :
            /\ Writes(r)
            /\ ~EndsError(events'[r])
            /\ CompletePaper(local[r].paper)
            /\ cache'[local[r].paper.id].data = local[r].paper

\* C24: a run writes the cache at most once, only after every paragraph has
\* been processed, and with a Paper that has as many plain blocks as blocks;
\* a run that ends with an error terminal event has not written and no step
\* of it changes the cache; a run through the pipeline emits 'complete' and
\* 'ready' only after its cache write has returned.
C24_WriteOnceWhenComplete ==
    /\ [](\A r \in Runs : WriteInOrder(r))
    /\ [][OnlySavingWrites]_vars

\* one run wrote and ended ready after rewriting a paragraph, the other
\* reached the saving step and ended with the error of a failed write
C24_Witness ==
    \E r, q \in Runs :
        /\ HasWritten(r) /\ EndsReady(events[r]) /\ rw[r].totalParagraphs >= 1
        /\ EndsError(events[q]) /\ rw[q].status = "returned"

\* the key of the cache query: generatePaperId of the identifier matched in the url
LookedUpKey(r) == generatePaperId(extractDoiFromUrl(req[r].url))

ReturnedPaper(r) == events[r][Len(events[r])].paper

\* the runs that have written the row of this key
Writers(key) == {q \in Runs : HasWritten(q) /\ local[q].paper.id = key}

Answered(r) == pc[r] = "done" /\ req[r].streamed

\* C25 as amended: a processing-stream request made after a run for the same
\* reference ended with 'ready' looks up the key that run's Paper was written
\* under and makes no rewrite call, no fetch and no write; when its cache
\* query answers it ends with 'ready' and the Paper of a run that wrote the
\* row, which is the Paper the earlier run returned when no other run has
\* written the row, and when its cache query throws it ends with that error.
C25_LaterRequestServedFromCache ==
    Answered(Later) =>
        /\ calls[Later].rewrite = 0
        /\ calls[Later].meta = 0
        /\ calls[Later].cacheWrites = 0
        /\ \A q \in req[Later].after : ReturnedPaper(q).id = LookedUpKey(Later)
        /\ IF calls[Later].cacheReads = 1
           THEN /\ EndsReady(events[Later])
                /\ ReturnedPaper(Later) \in {local[q].paper : q \in Writers(LookedUpKey(Later))}
                /\ Cardinality(Writers(LookedUpKey(Later))) = 1 =>
                      \A q \in req[Later].after : ReturnedPaper(Later) = ReturnedPaper(q)
           ELSE Reported(Later) = DbErrorMessage

\* a later request, under a url that differs from the first run's, was served
\* the first run's Paper
C25_Witness ==
    /\ Answered(Later)
    /\ EndsReady(events[Later])
    /\ \E q \in req[Later].after :
          /\ HasWritten(q)
          /\ calls[q].rewrite >= 1
          /\ req[q].url # req[Later].url
          /\ ReturnedPaper(Later) = ReturnedPaper(q)

\* C25 as stated, for later requests whose cache query answers: the request
\* looks up the key that was written, makes no rewrite call and ends with
\* 'ready' and a Paper equal to the one the earlier run returned.
C25_SamePaperForEveryLaterRequest ==
    (Answered(Later) /\ calls[Later].cacheReads = 1) =>
        \A q \in req[Later].after :
            /\ ReturnedPaper(q).id = LookedUpKey(Later)
            /\ calls[Later].rewrite = 0
            /\ EndsReady(events[Later])
            /\ ReturnedPaper(Later) = ReturnedPaper(q)

(***************************************************************************)
(* Claims about the markers in the output of highlightTerms (checked under *)
(* SpecHighlight)                                                          *)
(***************************************************************************)
\* the positions of s taken by marker markup: an opening tag with the ID in
\* it, or a closing tag
MarkupAt(s) ==
    {j \in 1..Len(s) :
        \/ s[j] = MarkClose
        \/ \E i \in 1..j : s[i] = MarkOpen /\ \A k \in i..(j - 1) : s[k] # MarkMid}

\* s with the markers taken out and what they wrap left in
StripMarkers(s) ==
    LET keep == (1..Len(s)) \ MarkupAt(s)
    IN  [n \in 1..Cardinality(keep) |->
            s[CHOOSE j \in keep : Cardinality({k \in keep : k <= j}) = n]]

\* the marker that opens at position i of s: its ID, the text it wraps and
\* where that text starts once the markers are taken out
MarkerAt(s, i) ==
    LET mids == {j \in (i + 1)..Len(s) : s[j] = MarkMid}
        mid == IF mids = {} THEN Len(s) + 1 ELSE Least(mids)
        closes == {k \in (mid + 1)..Len(s) : s[k] = MarkClose}
        close == IF closes = {} THEN Len(s) + 1 ELSE Least(closes)
    IN  [closed |-> closes # {},
         id |-> SubSeq(s, i + 1, mid - 1),
         wraps |-> SubSeq(s, mid + 1, close - 1),
         at |-> Cardinality({k \in 1..(i - 1) : k \notin MarkupAt(s)}) + 1]

\* C26: in the output of highlightTerms every marker carries the ID of a
\* glossary entry and wraps the text found in the input at an occurrence of
\* that entry's term, equal to the term up to case and delimited by word
\* boundaries on both sides; taking the markers out of the output gives back
\* the input text.
C26_MarkersWrapInputOccurrences ==
    hl.phase = "returned" =>
        /\ StripMarkers(hl.out) = hl.text
        /\ \A i \in 1..Len(hl.out) :
              hl.out[i] = MarkOpen =>
                LET m == MarkerAt(hl.out, i)
                IN  /\ m.closed
                    /\ \E e \in 1..Len(hl.terms) :
                          /\ hl.terms[e].id = m.id
                          /\ toLowerCase(m.wraps) = toLowerCase(hl.terms[e].term)
                          /\ StandsAt(hl.terms[e].term, hl.text, m.at)
                          /\ m.wraps = SubSeq(hl.text, m.at, m.at + Len(m.wraps) - 1)

====
